---- MODULE Spec2Model ----
(***************************************************************************)
(* The conversation engine of the hiring-intake Slack bot (src/app.py)     *)
(* with its collaborators: the classifier (src/llm_agent.py), the          *)
(* description generator (src/job_description_agent.py), the poster        *)
(* (src/linkedin_poster.py) and the draft store (src/state_manager.py).    *)
(*                                                                         *)
(* Python values are tagged records: None, Str(chars), Num(n), List(l),    *)
(* Dict(d).  A Python str is a sequence of one-character strings, so that  *)
(* strip, lower, "in" and startswith are computed.  A dict is a function   *)
(* from its keys to its values; "k in d" is k \in DOMAIN d.                *)
(* A text handed to json.loads is a sequence of tokens: a markdown fence,  *)
(* a word, white space, junk, or one JSON document carrying its value.     *)
(* chat_postMessage is taken to succeed: a posted message is appended to   *)
(* the messages sent while handling the event.                             *)
(***************************************************************************)
EXTENDS Integers, Sequences, FiniteSets, TLC

VARIABLES
  conversation_states,  \* app.py:34   channel id -> state dict
  recently_completed,   \* app.py:36   channel id -> True
  event,                \* the request handled by the last step
  sent,                 \* chat_postMessage calls of the last step, in order
  calls,                \* collaborator calls of the last step, in order
  llm_response,         \* text given to validate_llm_response in the last step
  data,                 \* outcome of validate_llm_response in the last step
  since,                \* history: per channel, what happened since the last
                        \* successful post or draft (or since start)
  threads               \* listener calls in flight on the client's worker
                        \* threads (used when listeners run interleaved)

vars == <<conversation_states, recently_completed, event, sent, calls,
          llm_response, data, since, threads>>

----------------------------------------------------------------------------
(* Python values *)

None == [t |-> "None"]
Str(s) == [t |-> "str", s |-> s]
Num(n) == [t |-> "int", n |-> n]
List(l) == [t |-> "list", l |-> l]
Dict(d) == [t |-> "dict", d |-> d]

\* the empty dict {}
EmptyMap == [k \in {} |-> None]

\* isinstance(v, dict) / isinstance(v, str)
IsDict(v) == v.t = "dict"
IsStr(v) == v.t = "str"

\* bool(v)
Truthy(v) ==
  CASE v.t = "None" -> FALSE
    [] v.t = "str" -> v.s # <<>>
    [] v.t = "int" -> v.n # 0
    [] v.t = "list" -> v.l # <<>>
    [] v.t = "dict" -> DOMAIN v.d # {}

\* d.get(k) and d.get(k, default) of a dict value
Get(dict, k) == IF k \in DOMAIN dict.d THEN dict.d[k] ELSE None
GetOr(dict, k, default) == IF k \in DOMAIN dict.d THEN dict.d[k] ELSE default

\* d[k] = v on a function
Put(d, k, v) == [x \in DOMAIN d \cup {k} |-> IF x = k THEN v ELSE d[x]]
\* a slip in Del: the key stays
Del_Nothing(d, k) == d

\* del d[k]

Del(d, k) == [x \in DOMAIN d \ {k} |-> d[x]]

\* outcome of a call: a returned value or a raised exception
Return(v) == [raised |-> "", value |-> v]
Raise(e) == [raised |-> e]
NotCalled == [raised |-> "not called"]
Returned(r) == r.raised = ""

----------------------------------------------------------------------------
(* Python str operations on sequences of characters *)

Whitespace == {" ", "\n", "\t"}
Digits == {"0", "1", "2", "3", "4", "5", "6", "7", "8", "9"}

ToLower ==
  [A |-> "a", B |-> "b", C |-> "c", D |-> "d", E |-> "e", F |-> "f", G |-> "g",
   H |-> "h", I |-> "i", J |-> "j", K |-> "k", L |-> "l", M |-> "m", N |-> "n",
   O |-> "o", P |-> "p", Q |-> "q", R |-> "r", S |-> "s", T |-> "t", U |-> "u",
   V |-> "v", W |-> "w", X |-> "x", Y |-> "y", Z |-> "z"]

\* s.lower()
Lower(s) == [i \in 1..Len(s) |-> IF s[i] \in DOMAIN ToLower THEN ToLower[s[i]] ELSE s[i]]

\* a slip in Strip: the string is returned as it is
Strip_Nothing(s) == s

\* s.strip()
Strip(s) ==
  LET keep == {i \in 1..Len(s) : s[i] \notin Whitespace}
  IN IF keep = {} THEN <<>>
     ELSE SubSeq(s, CHOOSE i \in keep : \A j \in keep : i <= j,
                    CHOOSE i \in keep : \A j \in keep : j <= i)

\* sub in s
Contains(sub, s) ==
  \E i \in 0..(Len(s) - Len(sub)) : SubSeq(s, i + 1, i + Len(sub)) = sub

\* s.startswith(p)
StartsWith(s, p) == Len(s) >= Len(p) /\ SubSeq(s, 1, Len(p)) = p

\* sep.join(list)
Join(sep, list) ==
  LET joined[n \in 0..Len(list)] ==
        IF n = 0 THEN <<>>
        ELSE IF n = 1 THEN list[1]
        ELSE joined[n - 1] \o sep \o list[n]
  IN joined[Len(list)]

----------------------------------------------------------------------------
(* JSON texts *)

Fence == [tok |-> "fence"]
Word(w) == [tok |-> "word", w |-> w]
Space == [tok |-> "space"]
Junk == [tok |-> "junk"]
Json(v) == [tok |-> "json", v |-> v]

\* json.dumps(v): the text of one document
Dumps(v) == <<Json(v)>>

\* json.loads(text): the value of the document, white space around it allowed
StripTokens(text) ==
  LET keep == {i \in 1..Len(text) : text[i] # Space}
  IN IF keep = {} THEN <<>>
     ELSE SubSeq(text, CHOOSE i \in keep : \A j \in keep : i <= j,
                       CHOOSE i \in keep : \A j \in keep : j <= i)

Loads(text) ==
  LET body == StripTokens(text)
  IN IF Len(body) = 1 /\ body[1].tok = "json" THEN Return(body[1].v)
     ELSE Raise("JSONDecodeError")

----------------------------------------------------------------------------
(* src/app.py: validate_llm_response *)

required_entities == <<"job_title", "experience", "skills", "job_type", "location">>
RequiredKeys == {required_entities[i] : i \in 1..Len(required_entities)}

\* the string constants the code compares intents with
HIRING_REQUEST == <<"h","i","r","i","n","g","_","r","e","q","u","e","s","t">>
NOT_HIRING == <<"n","o","t","_","h","i","r","i","n","g">>
QUOTA_EXCEEDED == <<"q","u","o","t","a","_","e","x","c","e","e","d","e","d">>

AllNone == [k \in RequiredKeys |-> None]

\* the record both except clauses return (app.py:69-78, 81-90)
NotHiringFallback == Dict([intent |-> Str(NOT_HIRING), entities |-> Dict(AllNone)])

\* a slip in FillMissing: every required key is set to None, present or not
FillMissing_Overwrite(entities) ==
  Dict([k \in DOMAIN entities.d \cup RequiredKeys |->
          IF k \in RequiredKeys THEN None ELSE entities.d[k]])

\* app.py:58-62: every required key not in data["entities"] is set to None
FillMissing(entities) ==
  Dict([k \in DOMAIN entities.d \cup RequiredKeys |->
          IF k \in DOMAIN entities.d THEN entities.d[k] ELSE None])

\* a slip in ValidateTry: an intent outside the three known ones is
\* replaced by not_hiring
ValidateTry_KnownIntents(text) ==
  LET loaded == Loads(text) IN
  IF ~Returned(loaded) THEN loaded
  ELSE LET d == loaded.value IN
    IF ~IsDict(d) THEN Raise("ValueError")
    ELSE IF "intent" \notin DOMAIN d.d THEN Raise("ValueError")
    ELSE IF "entities" \notin DOMAIN d.d THEN Raise("ValueError")
    ELSE IF ~IsDict(d.d["entities"]) THEN Raise("ValueError")
    ELSE Return(Dict(Put(Put(d.d, "entities", FillMissing(d.d["entities"])), "intent",
                         IF d.d["intent"] \in {Str(HIRING_REQUEST), Str(NOT_HIRING), Str(QUOTA_EXCEEDED)}
                         THEN d.d["intent"] ELSE Str(NOT_HIRING))))

\* app.py:40-64: the body of the try block
ValidateTry(text) ==
  LET loaded == Loads(text) IN
  IF ~Returned(loaded) THEN loaded
  ELSE LET d == loaded.value IN
    IF ~IsDict(d) THEN Raise("ValueError")
    ELSE IF "intent" \notin DOMAIN d.d THEN Raise("ValueError")
    ELSE IF "entities" \notin DOMAIN d.d THEN Raise("ValueError")
    ELSE IF ~IsDict(d.d["entities"]) THEN Raise("ValueError")
    ELSE Return(Dict(Put(d.d, "entities", FillMissing(d.d["entities"]))))

\* a slip in validate_llm_response: only json.JSONDecodeError is caught
validate_llm_response_JsonOnly(text) ==
  LET r == ValidateTry(text) IN
  IF Returned(r) THEN r
  ELSE IF r.raised = "JSONDecodeError" THEN Return(NotHiringFallback)
  ELSE r

\* app.py:66-90: except json.JSONDecodeError, except Exception
validate_llm_response(text) ==
  LET r == ValidateTry(text) IN
  IF Returned(r) THEN r
  ELSE IF r.raised = "JSONDecodeError" THEN Return(NotHiringFallback)
  ELSE Return(NotHiringFallback)

----------------------------------------------------------------------------
(* src/llm_agent.py: the classifier *)

\* llm_agent.py:58-62
valid_titles ==
  { <<"d","e","v","e","l","o","p","e","r">>, <<"e","n","g","i","n","e","e","r">>,
    <<"p","r","o","g","r","a","m","m","e","r">>, <<"a","r","c","h","i","t","e","c","t">>,
    <<"l","e","a","d">>, <<"m","a","n","a","g","e","r">>,
    <<"f","r","o","n","t","e","n","d">>, <<"b","a","c","k","e","n","d">>,
    <<"f","u","l","l","s","t","a","c","k">>, <<"f","u","l","l"," ","s","t","a","c","k">>,
    <<"u","i">>, <<"u","x">>, <<"d","e","s","i","g","n","e","r">>,
    <<"d","e","v","o","p","s">>, <<"d","a","t","a">>, <<"a","n","a","l","y","s","t">>,
    <<"s","c","i","e","n","t","i","s","t">>, <<"q","a">>, <<"t","e","s","t","e","r">> }

\* llm_agent.py:95
valid_types ==
  { <<"f","u","l","l","-","t","i","m","e">>, <<"f","u","l","l"," ","t","i","m","e">>,
    <<"p","a","r","t","-","t","i","m","e">>, <<"p","a","r","t"," ","t","i","m","e">>,
    <<"c","o","n","t","r","a","c","t">>, <<"f","r","e","e","l","a","n","c","e">>,
    <<"r","e","m","o","t","e">> }

\* llm_agent.py:74: re.search(r'\d+\s*years?|junior|senior|mid|level|entry|experienced', exp)
ExperienceWords ==
  { <<"j","u","n","i","o","r">>, <<"s","e","n","i","o","r">>, <<"m","i","d">>,
    <<"l","e","v","e","l">>, <<"e","n","t","r","y">>,
    <<"e","x","p","e","r","i","e","n","c","e","d">> }

DigitsThenYear(s) ==
  \E k \in 1..Len(s) :
    /\ s[k] \in Digits
    /\ \E m \in k..Len(s) :
         /\ \A i \in (k + 1)..m : s[i] \in Whitespace \cup {"\r"}
         /\ StartsWith(SubSeq(s, m + 1, Len(s)), <<"y","e","a","r">>)

ExperienceSearch(exp) ==
  DigitsThenYear(exp) \/ \E w \in ExperienceWords : Contains(w, exp)

\* llm_agent.py:107
OtherEntityLabels ==
  { <<"s","k","i","l","l","s",":">>,
    <<"e","x","p","e","r","i","e","n","c","e",":">>,
    <<"j","o","b","_","t","y","p","e",":">> }

\* llm_agent.py:55-112: the value kept for one entity, whose value passed
\* the "if entities.get(k):" test and is a str
CleanEntity(k, s) ==
  CASE k = "job_title" ->
         IF \E valid \in valid_titles : Contains(valid, Lower(Strip(s)))
         THEN Str(Strip(s)) ELSE None
    [] k = "experience" ->
         IF ExperienceSearch(Lower(Strip(s))) THEN Str(Strip(s)) ELSE None
    [] k = "skills" ->
         IF Len(Strip(s)) > 3 /\ ~StartsWith(Lower(Strip(s)), <<"i"," ","n","e","e","d">>)
         THEN Str(Strip(s)) ELSE None
    [] k = "job_type" ->
         IF \E valid \in valid_types : Contains(valid, Lower(Strip(s)))
         THEN Str(Strip(s)) ELSE None
    [] k = "location" ->
         IF Len(Strip(s)) > 2
            /\ ~\E entity \in OtherEntityLabels : Contains(entity, Lower(Strip(s)))
         THEN Str(Strip(s)) ELSE None

\* a slip in validate_entities: the classifier's entities are kept as they are
validate_entities_PassThrough(entities) == Return(entities)

\* llm_agent.py:50-114.  entities.get raises AttributeError unless entities
\* is a dict, and .strip() raises it on a truthy value that is not a str.
validate_entities(entities) ==
  IF ~IsDict(entities) THEN Raise("AttributeError")
  ELSE IF \E k \in RequiredKeys : Truthy(Get(entities, k)) /\ ~IsStr(Get(entities, k))
       THEN Raise("AttributeError")
  ELSE Return(Dict([k \in RequiredKeys |->
                      IF Truthy(Get(entities, k))
                      THEN CleanEntity(k, Get(entities, k).s) ELSE None]))

\* llm_agent.py:122-127
hiring_keywords ==
  { <<"h","i","r","i","n","g">>, <<"h","i","r","e">>,
    <<"l","o","o","k","i","n","g"," ","f","o","r">>, <<"n","e","e","d">>,
    <<"r","e","c","r","u","i","t","i","n","g">>,
    <<"j","o","b"," ","o","p","e","n","i","n","g">> }

simple_hiring_detection(text) ==
  \E keyword \in hiring_keywords : Contains(keyword, Lower(text))

\* llm_agent.py:223-231: the markdown code fence is removed
RemoveFences(response_text) ==
  LET c0 == StripTokens(response_text)
      c1 == IF StartsWith(c0, <<Fence, Word("json")>>) THEN SubSeq(c0, 3, Len(c0)) ELSE c0
      c2 == IF StartsWith(c1, <<Fence>>) THEN SubSeq(c1, 2, Len(c1)) ELSE c1
      c3 == IF c2 # <<>> /\ c2[Len(c2)] = Fence THEN SubSeq(c2, 1, Len(c2) - 1) ELSE c2
  IN StripTokens(c3)

\* '"intent" not in data or "entities" not in data' (llm_agent.py:236):
\* key lookup in a dict, substring of a str, element of a list, TypeError else
HasBoth(v) ==
  CASE v.t = "dict" -> Return("intent" \in DOMAIN v.d /\ "entities" \in DOMAIN v.d)
    [] v.t = "str" -> Return(Contains(<<"i","n","t","e","n","t">>, v.s)
                             /\ Contains(<<"e","n","t","i","t","i","e","s">>, v.s))
    [] v.t = "list" -> Return((\E i \in 1..Len(v.l) : v.l[i] = Str(<<"i","n","t","e","n","t">>))
                              /\ (\E i \in 1..Len(v.l) : v.l[i] = Str(<<"e","n","t","i","t","i","e","s">>)))
    [] OTHER -> Raise("TypeError")

\* llm_agent.py:221-244: the inner try block, given the model's text
ParseAndClean(response_text) ==
  LET loaded == Loads(RemoveFences(response_text)) IN
  IF ~Returned(loaded) THEN loaded
  ELSE LET d == loaded.value
           both == HasBoth(d) IN
    IF ~Returned(both) THEN both
    ELSE IF ~both.value THEN Raise("ValueError")
    ELSE IF ~IsDict(d) THEN Raise("TypeError")
    ELSE IF d.d["intent"] = Str(HIRING_REQUEST)
         THEN LET validated == validate_entities(d.d["entities"]) IN
              IF ~Returned(validated) THEN validated
              ELSE Return(Dumps(Dict(Put(d.d, "entities", validated.value))))
    ELSE Return(Dumps(d))

(* What the Gemini model can answer *)

TitleQA == Str(<<" ","Q","A"," ">>)
TitleLead == Str(<<"T","e","a","m"," ","l","e","a","d">>)
ExpMid == Str(<<"m","i","d">>)
ExpYears == Str(<<"2"," ","Y","e","a","r","s">>)
SkillsJava == Str(<<"j","a","v","a">>)
TypeRemote == Str(<<"R","e","m","o","t","e">>)
LocNYC == Str(<<"N","Y","C"," ">>)

FullA ==
  [job_title |-> TitleQA, experience |-> ExpMid, skills |-> SkillsJava,
   job_type |-> TypeRemote, location |-> LocNYC]
FullB == [FullA EXCEPT !["job_title"] = TitleLead, !["experience"] = ExpYears]

\* the JSON object {"intent": intent, "entities": entities}
Answer(intent, entities) == Json(Dict([intent |-> intent, entities |-> entities]))

GeminiTexts ==
  { <<Fence, Word("json"), Space, Answer(Str(HIRING_REQUEST), Dict(FullA)), Space, Fence>>,
    <<Fence, Answer(Str(HIRING_REQUEST), Dict(FullA)), Fence>>,
    <<Answer(Str(HIRING_REQUEST), Dict(FullB))>>,
    \* one entity the classifier's cleanup leaves or makes None
    <<Answer(Str(HIRING_REQUEST), Dict(Del(FullA, "job_title")))>>,
    <<Answer(Str(HIRING_REQUEST), Dict([FullA EXCEPT !["job_title"] = Str(<<" ">>)]))>>,
    <<Answer(Str(HIRING_REQUEST), Dict([FullA EXCEPT !["experience"] = Str(<<"2","y">>)]))>>,
    <<Answer(Str(HIRING_REQUEST), Dict([FullA EXCEPT !["skills"] = Str(<<"s","q","l">>)]))>>,
    <<Answer(Str(HIRING_REQUEST), Dict([FullA EXCEPT !["job_type"] = Str(<<"a","n","y">>)]))>>,
    <<Answer(Str(HIRING_REQUEST), Dict([FullA EXCEPT !["location"] = Str(<<"N","Y">>)]))>>,
    <<Answer(Str(HIRING_REQUEST), Dict([FullA EXCEPT !["location"] = None]))>>,
    <<Answer(Str(HIRING_REQUEST), Dict([FullA EXCEPT !["skills"] = Str(<<>>)]))>>,
    \* answers the cleanup raises on
    <<Answer(Str(HIRING_REQUEST), List(<<>>))>>,
    <<Answer(Str(HIRING_REQUEST), Dict([FullA EXCEPT !["job_title"] = Num(5)]))>>,
    <<Json(Num(5))>>,
    <<Json(Str(<<"i","n","t","e","n","t"," ","e","n","t","i","t","i","e","s">>))>>,
    <<Json(Dict([intent |-> Str(HIRING_REQUEST)]))>>,
    \* answers that are not hiring requests pass through as they are
    <<Answer(Str(NOT_HIRING), Dict(AllNone))>>,
    <<Answer(Str(NOT_HIRING), Dict([job_title |-> Str(<<>>)]))>>,
    <<Answer(Str(NOT_HIRING), None)>>,
    <<Answer(Str(<<"g","r","e","e","t","i","n","g">>), Dict(EmptyMap))>>,
    <<Answer(None, Dict(FullA))>>,
    <<Answer(Str(QUOTA_EXCEEDED), Dict(AllNone))>>,
    \* not JSON
    <<Junk>>, <<Word("json"), Answer(Str(HIRING_REQUEST), Dict(FullA))>>, <<>> }

GeminiErrors ==
  { <<"4","2","9"," ","l","i","m","i","t">>, <<"Q","u","o","t","a">>,
    <<"t","i","m","e","o","u","t">> }

\* what model.generate_content(full_prompt) did (llm_agent.py:217-218)
GeminiOutcomes ==
  {[raised |-> FALSE, text |-> t] : t \in GeminiTexts}
    \cup {[raised |-> TRUE, error |-> e] : e \in GeminiErrors}

\* llm_agent.py:213-244: what the outer try block does for each outcome of
\* generate_content; an exception of the API carries its message
TryModel ==
  [g \in GeminiOutcomes |->
     IF g.raised THEN [raised |-> "Exception", message |-> g.error]
     ELSE ParseAndClean(g.text)]

\* the distinct outcomes of the try block
ModelOutcomes == {TryModel[g] : g \in GeminiOutcomes}

\* llm_agent.py:250-259, 267-276, 280-288
FallbackJson(intent) == Dumps(Dict([intent |-> Str(intent), entities |-> Dict(AllNone)]))

\* llm_agent.py:116-289.  tried is the outcome of the try block.  str(e) of
\* an exception raised by the parsing and cleaning code names neither a
\* quota nor 429.
process_with_adk_agent(query, tried) ==
  LET message == IF "message" \in DOMAIN tried THEN tried.message ELSE <<>>
  IN IF Returned(tried) THEN tried.value
     ELSE IF tried.raised = "JSONDecodeError" THEN FallbackJson(NOT_HIRING)
     ELSE IF Contains(<<"q","u","o","t","a">>, Lower(message))
             \/ Contains(<<"4","2","9">>, message)
          THEN FallbackJson(QUOTA_EXCEEDED)
     ELSE FallbackJson(IF simple_hiring_detection(query) THEN HIRING_REQUEST ELSE NOT_HIRING)

----------------------------------------------------------------------------
(* src/job_description_agent.py, src/linkedin_poster.py, src/state_manager.py *)

\* what happened inside generate_job_description: "text" and "error" are what
\* model.generate_content(prompt) did (job_description_agent.py:91, inside the
\* try); "unreadable" is load_company_knowledge raising an OSError other than
\* FileNotFoundError (job_description_agent.py:43, before the try)
GenaiOutcomes == {"text", "error", "unreadable"}

\* the environment of post_job and of save_job_to_file
NetOutcomes ==
  {[credentials |-> TRUE, http |-> h] : h \in {"201", "500", "raised"}}
    \cup {[credentials |-> FALSE, http |-> "201"]}
DiskOutcomes == {"ok", "error"}


\* a slip in generate_job_description: the failure of the model call is not
\* caught
generate_job_description_Propagates(entities, genai) ==
  IF DOMAIN entities.d # RequiredKeys THEN Raise("TypeError")
  ELSE IF genai = "unreadable" THEN Raise("OSError")
  ELSE IF genai = "text" THEN Return([source |-> "model", prompt |-> entities.d])
  ELSE Raise("Exception")

\* job_description_agent.py:38-113, called as generate_job_description(**entities):
\* a keyword other than the five parameters, or a missing one, is a TypeError.
generate_job_description(entities, genai) ==
  IF DOMAIN entities.d # RequiredKeys THEN Raise("TypeError")
  ELSE IF genai = "unreadable" THEN Raise("OSError")
  ELSE IF genai = "text" THEN Return([source |-> "model", prompt |-> entities.d])
  ELSE Return([source |-> "fallback", job |-> entities.d])

\* linkedin_poster.py:12-72.  net is [credentials, http]: whether both
\* environment variables are set, and what requests.post did.
post_job(job_details, net) ==
  IF ~net.credentials THEN <<FALSE, "LinkedIn credentials (LINKEDIN_ACCESS_TOKEN or PERSON_URN) not found.">>
  ELSE IF net.http = "raised" THEN <<FALSE, "str(e)">>
  ELSE IF net.http = "201" THEN <<TRUE, "https://www.linkedin.com/feed/update/{post_id}">>
  ELSE <<FALSE, "Failed: {status_code} - {text}">>

\* state_manager.py:9-27.  disk is "ok", or "error" when reading or writing
\* saved_jobs.json raised.
save_job_to_file(entities, disk) == disk = "ok"

----------------------------------------------------------------------------
(* src/app.py: process_conversation *)

follow_up_order == <<"job_title", "experience", "skills", "job_type", "location">>

\* app.py:131-137
questions ==
  [job_title |-> "What is the job title/role you're hiring for?",
   experience |-> "What is the required level of experience (e.g., 2 years, Senior)?",
   skills |-> "What specific skills are required for this role?",
   job_type |-> "Is this a full-time, part-time, or contract position?",
   location |-> "What is the location for this role (e.g., Remote, specific city)?"]

NA == Str(<<"N", "/", "A">>)

\* chat_postMessage(channel=..., text=...)
Msg(channel_id, text) == [channel |-> channel_id, text |-> text]

QuotaNotice == "I've reached my daily API limit. Please try again tomorrow or contact support to upgrade the plan."
NoTitleNotice == "I couldn't determine the job title. Could you please specify what role you're hiring for?"
GeneratingNotice == "Now, I will generate a job description..."
GenerationErrorNotice == "Sorry, I encountered an error while generating the job description. Please try again."
NotHiringNotice == "I didn't detect a hiring request. If you're looking to hire someone, please let me know the job details!"
ClarifyNotice == "I'm having trouble understanding your request. Could you please clarify if you're looking to hire someone?"

\* a slip in ConfirmationText: the plain list is shown in edit mode too
ConfirmationText_Plain(state, channel_id, entities) ==
  [channel |-> channel_id,
   text |-> "Great! I have all the details. Here's the complete hiring request:",
   lines |-> [k \in RequiredKeys |-> [new |-> GetOr(entities, k, NA)]]]

\* app.py:151-169
ConfirmationText(state, channel_id, entities) ==
  IF (IF "editing" \in DOMAIN state THEN state["editing"] ELSE FALSE)
  THEN LET original_entities ==
             IF "original_entities" \in DOMAIN state THEN state["original_entities"]
             ELSE Dict(EmptyMap)
       IN [channel |-> channel_id,
           text |-> "Here are the updated job details:",
           lines |-> [k \in RequiredKeys |->
                        [new |-> GetOr(entities, k, NA),
                         was |-> GetOr(original_entities, k, NA)]]]
  ELSE [channel |-> channel_id,
        text |-> "Great! I have all the details. Here's the complete hiring request:",
        lines |-> [k \in RequiredKeys |-> [new |-> GetOr(entities, k, NA)]]]

\* app.py:178-187
ButtonsMessage(channel_id, job_description) ==
  [channel |-> channel_id,
   text |-> "Job description generated.",
   blocks |-> [section |-> job_description,
               block_id |-> "jd_approval_buttons",
               action_ids |-> <<"jd_post_yes", "jd_draft", "jd_edit", "jd_no">>]]

\* a slip in Classify: only the last message is sent to the classifier
Classify_LastOnly(state) ==
  [fn |-> "process_with_adk_agent",
   query |-> state["messages"][Len(state["messages"])], context |-> <<>>]

\* the call process_conversation makes to the classifier (app.py:104-108)
Classify(state) ==
  [fn |-> "process_with_adk_agent",
   query |-> Join(<<"\n">>, state["messages"]), context |-> <<>>]

\* one way process_conversation ends: the store, the calls made after the
\* classifier's, the messages posted
Ends(states, channel_id, made, out) ==
  /\ conversation_states' = states
  /\ calls' = <<Classify(states[channel_id])>> \o made
  /\ sent' = out

\* a slip in Freeze: the entities are not stored
Freeze_Nothing(state, entities) == state

\* app.py:190: conversation_states[channel_id]["final_entities"] = entities
Freeze(state, entities) == Put(state, "final_entities", entities)

\* app.py:141-194: all entities are filled
Finalize(states, channel_id, entities) ==
  IF ~Truthy(Get(entities, "job_title")) THEN
    Ends(states, channel_id, <<>>, <<Msg(channel_id, NoTitleNotice)>>)
  ELSE IF ~IsStr(Get(entities, "job_title")) THEN    \* .strip() raises AttributeError
    Ends(states, channel_id, <<>>, <<>>)
  ELSE IF Strip(Get(entities, "job_title").s) = <<>> THEN
    Ends(states, channel_id, <<>>, <<Msg(channel_id, NoTitleNotice)>>)
  ELSE
    \E genai \in GenaiOutcomes :
      LET job_description == generate_job_description(entities, genai)
          generated == [fn |-> "generate_job_description", kwargs |-> entities.d,
                        result |-> job_description]
          first == <<ConfirmationText(states[channel_id], channel_id, entities),
                     Msg(channel_id, GeneratingNotice)>>
      IN IF Returned(job_description)
         THEN Ends([states EXCEPT ![channel_id] = Freeze(@, entities)],
                   channel_id, <<generated>>,
                   Append(first, ButtonsMessage(channel_id, job_description.value)))
         ELSE Ends(states, channel_id, <<generated>>,
                   Append(first, Msg(channel_id, GenerationErrorNotice)))

\* a slip in FirstMissing: the last missing entity is asked for
FirstMissing_Last(entities) ==
  LET missing == {i \in 1..Len(follow_up_order) : Get(entities, follow_up_order[i]) = None}
  IN IF missing = {} THEN None
     ELSE Str(follow_up_order[CHOOSE i \in missing : \A j \in missing : i >= j])

\* a slip in FirstMissing: nothing is ever reported missing
FirstMissing_Never(entities) == None

\* app.py:125-129: the first entity of follow_up_order that is None, or None
FirstMissing(entities) ==
  LET missing == {i \in 1..Len(follow_up_order) : Get(entities, follow_up_order[i]) = None}
  IN IF missing = {} THEN None
     ELSE Str(follow_up_order[CHOOSE i \in missing : \A j \in missing : i <= j])

\* a slip in OnQuota: the conversation is dropped with the notice
OnQuota_Destroys(states, channel_id) ==
  /\ conversation_states' = Del(states, channel_id)
  /\ calls' = <<Classify(states[channel_id])>>
  /\ sent' = <<Msg(channel_id, QuotaNotice)>>

\* app.py:114-117: the rate-limit notice, and return
OnQuota(states, channel_id) ==
  Ends(states, channel_id, <<>>, <<Msg(channel_id, QuotaNotice)>>)

\* a slip in OnOtherIntent: an unknown intent is answered like not_hiring
OnOtherIntent_AsNotHiring(states, channel_id) ==
  Ends(states, channel_id, <<>>, <<Msg(channel_id, NotHiringNotice)>>)

\* app.py:198-200: the generic clarification notice
OnOtherIntent(states, channel_id) ==
  Ends(states, channel_id, <<>>, <<Msg(channel_id, ClarifyNotice)>>)

\* app.py:114-200: what is done with the validated answer data'
Respond(states, channel_id) ==
  IF ~Returned(data') THEN Ends(states, channel_id, <<>>, <<>>)
  ELSE IF Get(data'.value, "intent") = Str(QUOTA_EXCEEDED) THEN
    OnQuota(states, channel_id)
  ELSE IF Get(data'.value, "intent") = Str(HIRING_REQUEST)
          /\ "entities" \in DOMAIN data'.value.d THEN
    LET entities == data'.value.d["entities"]
        first_missing_entity == FirstMissing(entities)
    IN IF first_missing_entity # None
       THEN Ends(states, channel_id, <<>>,
                 <<Msg(channel_id, questions[first_missing_entity.s])>>)
       ELSE Finalize(states, channel_id, entities)
  ELSE IF Get(data'.value, "intent") = Str(NOT_HIRING) THEN
    Ends(states, channel_id, <<>>, <<Msg(channel_id, NotHiringNotice)>>)
  ELSE
    OnOtherIntent(states, channel_id)

\* app.py:92-200, run on the store the caller has just updated
process_conversation(states, channel_id) ==
  IF channel_id \notin DOMAIN states \/ states[channel_id]["messages"] = <<>>
  THEN /\ conversation_states' = states
       /\ calls' = <<>>
       /\ sent' = <<>>
       /\ llm_response' = <<>>
       /\ data' = NotCalled
  ELSE \E tried \in ModelOutcomes :
         /\ llm_response' = process_with_adk_agent(Classify(states[channel_id]).query, tried)
         /\ data' = validate_llm_response(llm_response')
         /\ Respond(states, channel_id)

----------------------------------------------------------------------------
(* The inputs the environment can deliver *)

Channels == {"C1"}
Users == {"U1", "U2"}
bot_user_id == "B0"

Texts ==
  { <<"N","e","e","d"," ","Q","A">>, <<"h","i">> }

ActionIds == {"jd_post_yes", "jd_draft", "jd_edit", "jd_no", "jd_other"}

----------------------------------------------------------------------------
(* src/app.py: the two request listeners *)

NothingSince == [texts |-> {}, finalized |-> FALSE, edited |-> FALSE]

\* a handler that left the store alone and called nothing
Quiet ==
  /\ UNCHANGED <<conversation_states, recently_completed, since>>
  /\ sent' = <<>>
  /\ calls' = <<>>
  /\ llm_response' = <<>>
  /\ data' = NotCalled

\* a slip in Stored: the owner's message is appended whatever the history holds
Stored_NoDedup(states, channel_id, user_id, message_text) ==
  IF channel_id \in DOMAIN states
  THEN IF user_id = states[channel_id]["user_id"]
       THEN [states EXCEPT ![channel_id]["messages"] = Append(@, message_text)]
       ELSE [states EXCEPT ![channel_id] = [user_id |-> user_id, messages |-> <<message_text>>]]
  ELSE Put(states, channel_id, [user_id |-> user_id, messages |-> <<message_text>>])

\* a slip in Stored: the owner's message is compared with the last entry only
Stored_LastOnly(states, channel_id, user_id, message_text) ==
  IF channel_id \in DOMAIN states
  THEN IF user_id = states[channel_id]["user_id"]
       THEN IF states[channel_id]["messages"] = <<>>
               \/ states[channel_id]["messages"][Len(states[channel_id]["messages"])]
                    # message_text
            THEN [states EXCEPT ![channel_id]["messages"] = Append(@, message_text)]
            ELSE states
       ELSE [states EXCEPT ![channel_id] = [user_id |-> user_id, messages |-> <<message_text>>]]
  ELSE Put(states, channel_id, [user_id |-> user_id, messages |-> <<message_text>>])

\* a slip in Stored: another user takes the conversation over with its history
Stored_TakeOver(states, channel_id, user_id, message_text) ==
  IF channel_id \in DOMAIN states
  THEN IF user_id = states[channel_id]["user_id"]
       THEN IF \A i \in 1..Len(states[channel_id]["messages"]) :
                 states[channel_id]["messages"][i] # message_text
            THEN [states EXCEPT ![channel_id]["messages"] = Append(@, message_text)]
            ELSE states
       ELSE [states EXCEPT ![channel_id]["user_id"] = user_id,
                           ![channel_id]["messages"] = Append(@, message_text)]
  ELSE Put(states, channel_id, [user_id |-> user_id, messages |-> <<message_text>>])

\* a slip in Stored: another user gets a fresh history, but the confirmed
\* entities and the edit flags of the previous owner stay
Stored_KeepsEntities(states, channel_id, user_id, message_text) ==
  IF channel_id \in DOMAIN states
  THEN IF user_id = states[channel_id]["user_id"]
       THEN IF \A i \in 1..Len(states[channel_id]["messages"]) :
                 states[channel_id]["messages"][i] # message_text
            THEN [states EXCEPT ![channel_id]["messages"] = Append(@, message_text)]
            ELSE states
       ELSE [states EXCEPT ![channel_id]["user_id"] = user_id,
                           ![channel_id]["messages"] = <<message_text>>]
  ELSE Put(states, channel_id, [user_id |-> user_id, messages |-> <<message_text>>])

\* app.py:215-237: the store after the message was put into it, or the store
\* itself when the message is a duplicate
Stored(states, channel_id, user_id, message_text) ==
  IF channel_id \in DOMAIN states
  THEN IF user_id = states[channel_id]["user_id"]
       THEN IF \A i \in 1..Len(states[channel_id]["messages"]) :
                 states[channel_id]["messages"][i] # message_text
            THEN [states EXCEPT ![channel_id]["messages"] = Append(@, message_text)]
            ELSE states
       ELSE [states EXCEPT ![channel_id] = [user_id |-> user_id, messages |-> <<message_text>>]]
  ELSE Put(states, channel_id, [user_id |-> user_id, messages |-> <<message_text>>])

\* app.py:203-240
process_slack_events(channel_id, user_id, message_text, subtype) ==
  /\ event' = [type |-> "message", channel |-> channel_id, user |-> user_id,
               text |-> message_text, subtype |-> subtype]
  /\ IF user_id = bot_user_id \/ subtype THEN Quiet
     ELSE IF Stored(conversation_states, channel_id, user_id, message_text)
             = conversation_states
     THEN Quiet
     ELSE /\ process_conversation(
               Stored(conversation_states, channel_id, user_id, message_text), channel_id)
          /\ since' = [since EXCEPT ![channel_id] =
                         [texts |-> @.texts \cup {message_text},
                          finalized |-> @.finalized
                                          \/ \E i \in 1..Len(sent') : "blocks" \in DOMAIN sent'[i],
                          edited |-> @.edited]]
          /\ UNCHANGED recently_completed

\* a slip in MarkCompleted: the channel is not marked
MarkCompleted_Nothing(done, channel_id) == done

\* app.py:262, 279: recently_completed[channel_id] = True
MarkCompleted(done, channel_id) == Put(done, channel_id, TRUE)

\* a slip in PressPost: after a successful post the conversation stays
PressPost_KeepsOnSuccess(channel_id, entities) ==
  \E net \in NetOutcomes :
    LET result == post_job(entities, net) IN
    /\ calls' = <<[fn |-> "post_job", job_details |-> entities, result |-> result]>>
    /\ IF result[1]
       THEN /\ sent' = <<[channel |-> channel_id,
                          text |-> "Job posted successfully! Link: {message}",
                          message |-> result[2]],
                         Msg(channel_id, "Job posted! Conversation ended.")>>
            /\ recently_completed' = MarkCompleted(recently_completed, channel_id)
            /\ since' = [since EXCEPT ![channel_id] = NothingSince]
            /\ UNCHANGED conversation_states
       ELSE /\ sent' = <<[channel |-> channel_id,
                          text |-> "Error posting to LinkedIn: {message}",
                          message |-> result[2]]>>
            /\ conversation_states' = Del(conversation_states, channel_id)
            /\ UNCHANGED <<recently_completed, since>>

\* app.py:255-271: the owner pressed "Post Job"
PressPost(channel_id, entities) ==
  \E net \in NetOutcomes :
    LET result == post_job(entities, net) IN
    /\ calls' = <<[fn |-> "post_job", job_details |-> entities, result |-> result]>>
    /\ conversation_states' = Del(conversation_states, channel_id)
    /\ IF result[1]
       THEN /\ sent' = <<[channel |-> channel_id,
                          text |-> "Job posted successfully! Link: {message}",
                          message |-> result[2]],
                         Msg(channel_id, "Job posted! Conversation ended.")>>
            /\ recently_completed' = MarkCompleted(recently_completed, channel_id)
            /\ since' = [since EXCEPT ![channel_id] = NothingSince]
       ELSE /\ sent' = <<[channel |-> channel_id,
                          text |-> "Error posting to LinkedIn: {message}",
                          message |-> result[2]]>>
            /\ UNCHANGED <<recently_completed, since>>

\* app.py:273-287: the owner pressed "Draft"
PressDraft(channel_id, entities) ==
  \E disk \in DiskOutcomes :
    LET job_id == save_job_to_file(entities, disk) IN
    /\ calls' = <<[fn |-> "save_job_to_file", entities |-> entities, result |-> job_id]>>
    /\ conversation_states' = Del(conversation_states, channel_id)
    /\ IF job_id
       THEN /\ sent' = <<[channel |-> channel_id,
                          text |-> "Job saved as draft. Job ID: {job_id}",
                          job_id |-> job_id],
                         Msg(channel_id, "Draft saved! Conversation ended.")>>
            /\ recently_completed' = MarkCompleted(recently_completed, channel_id)
            /\ since' = [since EXCEPT ![channel_id] = NothingSince]
       ELSE /\ sent' = <<Msg(channel_id, "An error occurred while saving the draft. Please try again.")>>
            /\ UNCHANGED <<recently_completed, since>>

\* a slip in PressEdit: the confirmed entities are moved into the snapshot
PressEdit_Clears(channel_id, entities) ==
  /\ sent' = <<Msg(channel_id, "Let's edit the job details. Please provide the updated information:")>>
  /\ calls' = <<>>
  /\ conversation_states' =
       [conversation_states EXCEPT ![channel_id] =
          Put(Put(Put(Del(@, "final_entities"), "processed", FALSE), "editing", TRUE),
              "original_entities", entities)]
  /\ since' = [since EXCEPT ![channel_id].edited = TRUE]
  /\ UNCHANGED recently_completed

\* app.py:289-301: the owner pressed "Edit"
PressEdit(channel_id, entities) ==
  /\ sent' = <<Msg(channel_id, "Let's edit the job details. Please provide the updated information:")>>
  /\ calls' = <<>>
  /\ conversation_states' =
       [conversation_states EXCEPT ![channel_id] =
          Put(Put(Put(@, "processed", FALSE), "editing", TRUE),
              "original_entities", entities)]
  /\ since' = [since EXCEPT ![channel_id].edited = TRUE]
  /\ UNCHANGED recently_completed

\* a slip in PressNo: the notices are sent and the conversation stays
PressNo_Keeps(channel_id) ==
  /\ sent' = <<Msg(channel_id, "Job posting cancelled."),
               Msg(channel_id, "Starting fresh. Please provide new job details:")>>
  /\ calls' = <<>>
  /\ UNCHANGED <<conversation_states, recently_completed, since>>

\* a slip in PressNo: the cancelled channel is marked as completed
PressNo_Marks(channel_id) ==
  /\ sent' = <<Msg(channel_id, "Job posting cancelled."),
               Msg(channel_id, "Starting fresh. Please provide new job details:")>>
  /\ calls' = <<>>
  /\ conversation_states' = Del(conversation_states, channel_id)
  /\ recently_completed' = Put(recently_completed, channel_id, TRUE)
  /\ UNCHANGED since

\* app.py:306-314: the owner pressed "No"
PressNo(channel_id) ==
  /\ sent' = <<Msg(channel_id, "Job posting cancelled."),
               Msg(channel_id, "Starting fresh. Please provide new job details:")>>
  /\ calls' = <<>>
  /\ conversation_states' = Del(conversation_states, channel_id)
  /\ UNCHANGED <<recently_completed, since>>

\* a slip in PressOther: the conversation stays
PressOther_Keeps(channel_id) ==
  /\ sent' = <<>>
  /\ calls' = <<>>
  /\ UNCHANGED <<conversation_states, recently_completed, since>>

\* app.py:319-320: the action id matched no branch
PressOther(channel_id) ==
  /\ sent' = <<>>
  /\ calls' = <<>>
  /\ conversation_states' = Del(conversation_states, channel_id)
  /\ UNCHANGED <<recently_completed, since>>

\* state.get("final_entities")
FinalEntities(state) ==
  IF "final_entities" \in DOMAIN state THEN state["final_entities"] ELSE None

\* a slip in IsOwner: any user of a channel with a live conversation passes
IsOwner_AnyUser(states, channel_id, user_id) == channel_id \in DOMAIN states

\* app.py:249: channel_id in conversation_states and
\* user_id == conversation_states[channel_id].get("user_id")
IsOwner(states, channel_id, user_id) ==
  /\ channel_id \in DOMAIN states
  /\ user_id = states[channel_id]["user_id"]

\* app.py:243-322
handle_interaction(action_id, channel_id, user_id) ==
  /\ event' = [type |-> "interactive", channel |-> channel_id, user |-> user_id,
               action_id |-> action_id]
  /\ llm_response' = <<>>
  /\ data' = NotCalled
  /\ IF IsOwner(conversation_states, channel_id, user_id)
     THEN
       IF ~Truthy(FinalEntities(conversation_states[channel_id])) THEN
         /\ sent' = <<Msg(channel_id, "Sorry, I seem to have lost the context. Please start over.")>>
         /\ calls' = <<>>
         /\ UNCHANGED <<conversation_states, recently_completed, since>>
       ELSE IF action_id = "jd_post_yes" THEN
         PressPost(channel_id, FinalEntities(conversation_states[channel_id]))
       ELSE IF action_id = "jd_draft" THEN
         PressDraft(channel_id, FinalEntities(conversation_states[channel_id]))
       ELSE IF action_id = "jd_edit" THEN
         PressEdit(channel_id, FinalEntities(conversation_states[channel_id]))
       ELSE IF action_id = "jd_no" THEN
         PressNo(channel_id)
       ELSE
         PressOther(channel_id)
     ELSE
       /\ sent' = <<>>
       /\ calls' = <<>>
       /\ UNCHANGED <<conversation_states, recently_completed, since>>

----------------------------------------------------------------------------
(* The bot: Slack delivers a message event or a button press *)

NoEvent == [type |-> "none"]

\* the worker threads the Socket Mode client runs listeners on
Workers == {"T1", "T2"}

\* a worker thread with no listener call in flight
Idle ==
  [pc |-> "idle", action_id |-> "", channel_id |-> "", entities |-> None,
   result |-> <<FALSE, "">>]

Init ==
  /\ conversation_states = [c \in {} |-> NoEvent]
  /\ recently_completed = [c \in {} |-> TRUE]
  /\ event = NoEvent
  /\ sent = <<>>
  /\ calls = <<>>
  /\ llm_response = <<>>
  /\ data = NotCalled
  /\ since = [c \in Channels |-> NothingSince]
  /\ threads = [w \in Workers |-> Idle]

MessageEvent ==
  \E channel_id \in Channels, user_id \in Users \cup {bot_user_id},
     message_text \in Texts, subtype \in BOOLEAN :
    /\ process_slack_events(channel_id, user_id, message_text, subtype)
    /\ UNCHANGED threads

ButtonEvent ==
  \E action_id \in ActionIds, channel_id \in Channels, user_id \in Users :
    /\ handle_interaction(action_id, channel_id, user_id)
    /\ UNCHANGED threads

Next == MessageEvent \/ ButtonEvent

Spec == Init /\ [][Next]_vars

----------------------------------------------------------------------------
(* validate_llm_response on its own: it is applied to every text of a pool *)

IntentValues ==
  { Str(HIRING_REQUEST), Str(NOT_HIRING), Str(QUOTA_EXCEEDED),
    Str(<<"g","r","e","e","t","i","n","g">>), None, Num(1) }

EntityMaps ==
  UNION {[keys -> {None, TitleQA}] : keys \in SUBSET (RequiredKeys \cup {"salary"})}

EntitiesValues ==
  {Dict(m) : m \in EntityMaps} \cup {None, Str(<<"x">>), List(<<>>), Num(0)}

JsonValues ==
  {Dict([intent |-> i, entities |-> e]) : i \in IntentValues, e \in EntitiesValues}
    \cup {Dict([intent |-> i]) : i \in IntentValues}
    \cup {Dict([entities |-> e]) : e \in EntitiesValues}
    \cup {Dict(EmptyMap), None, Num(5), Str(<<"h","i">>), List(<<>>)}

ValidatorInputs ==
  {Dumps(v) : v \in JsonValues}
    \cup { <<>>, <<Junk>>, <<Space, Json(Dict(EmptyMap)), Space>>,
           <<Fence, Word("json"), Answer(Str(NOT_HIRING), Dict(AllNone)), Fence>> }

InitValidate ==
  /\ conversation_states = [c \in {} |-> NoEvent]
  /\ recently_completed = [c \in {} |-> TRUE]
  /\ event = NoEvent
  /\ sent = <<>>
  /\ calls = <<>>
  /\ llm_response \in ValidatorInputs
  /\ data = NotCalled
  /\ since = [c \in Channels |-> NothingSince]
  /\ threads = [w \in Workers |-> Idle]

ValidateCall ==
  /\ data = NotCalled
  /\ data' = validate_llm_response(llm_response)
  /\ UNCHANGED <<conversation_states, recently_completed, event, sent, calls,
                 llm_response, since, threads>>

SpecValidate == InitValidate /\ [][ValidateCall]_vars

\* the text is one of the malformed classifier outputs: not JSON, not an
\* object, an object without "intent" or without "entities", or one whose
\* "entities" is not a mapping
Malformed(text) ==
  \/ ~Returned(Loads(text))
  \/ ~IsDict(Loads(text).value)
  \/ "intent" \notin DOMAIN Loads(text).value.d
  \/ "entities" \notin DOMAIN Loads(text).value.d
  \/ ~IsDict(Loads(text).value.d["entities"])

\* the record of C1: not_hiring with the five attributes null
AllNullRecord(v) ==
  /\ IsDict(v)
  /\ DOMAIN v.d = {"intent", "entities"}
  /\ v.d["intent"] = Str(NOT_HIRING)
  /\ IsDict(v.d["entities"])
  /\ DOMAIN v.d["entities"].d = RequiredKeys
  /\ \A k \in RequiredKeys : v.d["entities"].d[k] = None

\* C1: validate_llm_response never raises, and for every malformed classifier
\* output it returns exactly {intent: not_hiring, entities: the five
\* attributes, all null}.
C1_MalformedDegrades ==
  data # NotCalled =>
    /\ Returned(data)
    /\ Malformed(llm_response) => AllNullRecord(data.value)

\* C1 happens: the validator was applied to a hiring_request whose "entities"
\* is a string, not a mapping
C1_Witness ==
  /\ data # NotCalled
  /\ Returned(Loads(llm_response))
  /\ IsDict(Loads(llm_response).value)
  /\ DOMAIN Loads(llm_response).value.d = {"intent", "entities"}
  /\ Loads(llm_response).value.d["entities"] = Str(<<"x">>)
  /\ Loads(llm_response).value.d["intent"] = Str(HIRING_REQUEST)

KnownIntents == {Str(HIRING_REQUEST), Str(NOT_HIRING), Str(QUOTA_EXCEEDED)}

\* C2 as stated: for every input the returned intent is one of hiring_request,
\* not_hiring, quota_exceeded.
C2_Original ==
  data # NotCalled =>
    Returned(data) /\ Get(data.value, "intent") \in KnownIntents

\* C2 amended: the returned intent is not_hiring for a malformed output and
\* otherwise the intent of the classifier's object, unchanged; so it is one of
\* the three exactly when the output is malformed or the classifier's intent
\* is one of the three.
C2_IntentPassesThrough ==
  data # NotCalled =>
    /\ Returned(data)
    /\ IsDict(data.value)
    /\ "intent" \in DOMAIN data.value.d
    /\ data.value.d["intent"] =
         IF Malformed(llm_response) THEN Str(NOT_HIRING)
         ELSE Loads(llm_response).value.d["intent"]

\* C2 happens: a well-formed object with an intent outside the three was
\* validated
C2_Witness ==
  /\ data # NotCalled
  /\ ~Malformed(llm_response)
  /\ Loads(llm_response).value.d["intent"] \notin KnownIntents
  /\ Returned(data)
  /\ Get(data.value, "intent") \notin KnownIntents

\* the classifier's object carries a mapping under "entities"
CarriesEntities(text) ==
  /\ Returned(Loads(text))
  /\ IsDict(Loads(text).value)
  /\ "entities" \in DOMAIN Loads(text).value.d
  /\ IsDict(Loads(text).value.d["entities"])

\* the returned entities hold the five attributes
HasFiveKeys(v) ==
  /\ IsDict(v)
  /\ "entities" \in DOMAIN v.d
  /\ IsDict(v.d["entities"])
  /\ RequiredKeys \subseteq DOMAIN v.d["entities"].d

\* C3 as stated: for every input the returned entities hold the five
\* attributes, an attribute absent from the classifier's entities is null and
\* one that was present keeps its value.
C3_Original ==
  data # NotCalled =>
    /\ Returned(data)
    /\ HasFiveKeys(data.value)
    /\ CarriesEntities(llm_response) =>
         \A k \in RequiredKeys :
           data.value.d["entities"].d[k] = Get(Loads(llm_response).value.d["entities"], k)

\* C3 amended: for every input the returned entities hold the five attributes;
\* when the input is an object with "intent" and a mapping "entities", an
\* attribute absent from that mapping is null and every key that was present
\* keeps its value; for every other input the five attributes are null,
\* whatever entities the input carried.
C3_KeysFilled ==
  data # NotCalled =>
    /\ Returned(data)
    /\ HasFiveKeys(data.value)
    /\ IF Malformed(llm_response)
       THEN \A k \in RequiredKeys : data.value.d["entities"].d[k] = None
       ELSE /\ DOMAIN data.value.d["entities"].d
                 = DOMAIN Loads(llm_response).value.d["entities"].d \cup RequiredKeys
            /\ \A k \in DOMAIN data.value.d["entities"].d :
                 data.value.d["entities"].d[k]
                   = Get(Loads(llm_response).value.d["entities"], k)

\* C3 happens: a well-formed object whose entities lack one attribute and
\* hold a value for another was validated
C3_Witness ==
  /\ data # NotCalled
  /\ ~Malformed(llm_response)
  /\ "skills" \notin DOMAIN Loads(llm_response).value.d["entities"].d
  /\ Get(Loads(llm_response).value.d["entities"], "job_title") = TitleQA
  /\ Returned(data)
  /\ data.value.d["entities"].d["job_title"] = TitleQA

----------------------------------------------------------------------------
(* process_conversation, as seen in one step of the bot *)

\* the step ran the classifier and the validator, and the validated intent is
\* hiring_request
ValidatedHiring ==
  /\ data' # NotCalled
  /\ Returned(data')
  /\ Get(data'.value, "intent") = Str(HIRING_REQUEST)
  /\ IsDict(Get(data'.value, "entities"))

\* the first null attribute of e in the fixed order
FirstNull(e) ==
  IF Get(e, "job_title") = None THEN "job_title"
  ELSE IF Get(e, "experience") = None THEN "experience"
  ELSE IF Get(e, "skills") = None THEN "skills"
  ELSE IF Get(e, "job_type") = None THEN "job_type"
  ELSE "location"

\* the step did not write final_entities of the event's channel: the
\* conversation has none, or the one it had before the step
FinalEntitiesNotWritten ==
  "final_entities" \in DOMAIN conversation_states'[event'.channel] =>
    /\ event'.channel \in DOMAIN conversation_states
    /\ "final_entities" \in DOMAIN conversation_states[event'.channel]
    /\ conversation_states'[event'.channel]["final_entities"]
         = conversation_states[event'.channel]["final_entities"]

\* C4: in a turn whose validated intent is hiring_request with at least one of
\* the five attributes null, exactly one message is emitted, the fixed question
\* for the first null attribute in the order job_title, experience, skills,
\* job_type, location; no confirmation or buttons message is emitted, the
\* generator is not called and final_entities is not written.
C4_FirstMissingAsked ==
  [][ (ValidatedHiring /\ \E k \in RequiredKeys : Get(data'.value.d["entities"], k) = None)
        => /\ sent' = <<Msg(event'.channel,
                            questions[FirstNull(data'.value.d["entities"])])>>
           /\ \A i \in 1..Len(sent') : "blocks" \notin DOMAIN sent'[i]
                                        /\ "lines" \notin DOMAIN sent'[i]
           /\ \A i \in 1..Len(calls') : calls'[i].fn # "generate_job_description"
           /\ event'.channel \in DOMAIN conversation_states'
           /\ FinalEntitiesNotWritten ]_vars

\* C4 happens: a turn validated a hiring_request that has a job title and no
\* experience, and the experience question was sent
C4_Witness ==
  /\ event.type = "message"
  /\ data # NotCalled
  /\ Returned(data)
  /\ Get(data.value, "intent") = Str(HIRING_REQUEST)
  /\ Get(data.value.d["entities"], "job_title") # None
  /\ Get(data.value.d["entities"], "experience") = None
  /\ sent = <<Msg(event.channel, questions["experience"])>>

\* all five attributes are non-null and job_title is a non-blank string
Complete(e) ==
  /\ \A k \in RequiredKeys : Get(e, k) # None
  /\ IsStr(Get(e, "job_title"))
  /\ Strip(Get(e, "job_title").s) # <<>>

\* the messages of out that offer buttons
Offers(out) == {i \in 1..Len(out) : "blocks" \in DOMAIN out[i]}

\* the calls to the generator among made
Generations(made) == {i \in 1..Len(made) : made[i].fn = "generate_job_description"}

\* the step ended with the event's conversation in confirming on entities e
Confirming(e) ==
  /\ event'.channel \in DOMAIN conversation_states'
  /\ "final_entities" \in DOMAIN conversation_states'[event'.channel]
  /\ conversation_states'[event'.channel]["final_entities"] = e
  /\ Cardinality(Generations(calls')) = 1
  /\ \A i \in Generations(calls') : calls'[i].kwargs = e.d
  /\ Cardinality(Offers(sent')) = 1
  /\ \A i \in Offers(sent') :
       /\ Len(sent'[i].blocks.action_ids) = 4
       /\ {sent'[i].blocks.action_ids[j] : j \in 1..4}
            = {"jd_post_yes", "jd_draft", "jd_edit", "jd_no"}

----------------------------------------------------------------------------
(* process_slack_events, as seen in one step of the bot *)

\* the step handles a message of a user, not of the bot and without subtype
InboundMessage ==
  /\ event'.type = "message"
  /\ event'.user # bot_user_id
  /\ ~event'.subtype

\* the step handles a message of the stored owner of a live conversation
OwnerMessage ==
  /\ InboundMessage
  /\ event'.channel \in DOMAIN conversation_states
  /\ event'.user = conversation_states[event'.channel]["user_id"]

\* the texts stored in the history of the event's channel before the step
StoredTexts ==
  {conversation_states[event'.channel]["messages"][i] :
     i \in 1..Len(conversation_states[event'.channel]["messages"])}

\* the step changed nothing and called nobody
NoOp ==
  /\ conversation_states' = conversation_states
  /\ recently_completed' = recently_completed
  /\ calls' = <<>>
  /\ sent' = <<>>
  /\ data' = NotCalled

\* the step appended the message to the history and ran the classifier on the
\* joined history
AppendedAndProcessed ==
  /\ event'.channel \in DOMAIN conversation_states'
  /\ conversation_states'[event'.channel]["user_id"] = event'.user
  /\ conversation_states'[event'.channel]["messages"]
       = Append(conversation_states[event'.channel]["messages"], event'.text)
  /\ Len(calls') >= 1
  /\ calls'[1].fn = "process_with_adk_agent"
  /\ calls'[1].query
       = Join(<<"\n">>, conversation_states'[event'.channel]["messages"])
  /\ data' # NotCalled

\* C6: a message of the owner whose text is identical to a message stored in
\* the history of the live conversation is a no-op: no classifier call, no
\* outbound message, and the conversation (owner, history, final_entities,
\* editing flags) is unchanged.
C6_DuplicateIsNoOp ==
  [][ (OwnerMessage /\ event'.text \in StoredTexts) => NoOp ]_vars

\* C6 happens: the owner sent again the text the history holds, next to
\* final_entities, and nothing was called or sent
C6_Witness ==
  /\ event.type = "message"
  /\ event.user # bot_user_id
  /\ ~event.subtype
  /\ event.channel \in DOMAIN conversation_states
  /\ conversation_states[event.channel]["user_id"] = event.user
  /\ conversation_states[event.channel]["messages"] = <<event.text>>
  /\ "final_entities" \in DOMAIN conversation_states[event.channel]
  /\ calls = <<>>
  /\ sent = <<>>
  /\ data = NotCalled

\* the last entry of the history of the event's channel before the step
LastStored ==
  conversation_states[event'.channel]["messages"]
    [Len(conversation_states[event'.channel]["messages"])]

\* C7 as stated: an owner message is rejected as a duplicate exactly when it
\* equals the last stored message; a message equal to an earlier, non-last
\* entry is appended and processed like a new one.
C7_Original ==
  [][ OwnerMessage =>
        IF event'.text = LastStored THEN NoOp ELSE AppendedAndProcessed ]_vars

\* C7 amended: an owner message is rejected as a duplicate exactly when it
\* equals some stored message of the history, the last or an earlier one;
\* every other owner message is appended and processed.
C7_RejectedIffStored ==
  [][ OwnerMessage =>
        IF event'.text \in StoredTexts THEN NoOp ELSE AppendedAndProcessed ]_vars

\* C7 happens: the owner sent a text equal to the first of two history
\* entries, not to the last, and the history still has its two entries
C7_Witness ==
  /\ event.type = "message"
  /\ event.user # bot_user_id
  /\ ~event.subtype
  /\ event.channel \in DOMAIN conversation_states
  /\ conversation_states[event.channel]["user_id"] = event.user
  /\ Len(conversation_states[event.channel]["messages"]) = 2
  /\ conversation_states[event.channel]["messages"][1] = event.text
  /\ conversation_states[event.channel]["messages"][2] # event.text
  /\ calls = <<>>

\* C8: when a user other than the stored owner sends a message in a channel
\* with a live conversation, the conversation is replaced: the owner is the new
\* user, the history is exactly the new message, nothing of the old
\* conversation survives (final_entities, if present, is the one validated in
\* this turn), and the classifier is called with that single message.
C8_OtherUserReplaces ==
  [][ (/\ InboundMessage
       /\ event'.channel \in DOMAIN conversation_states
       /\ event'.user # conversation_states[event'.channel]["user_id"])
        => /\ event'.channel \in DOMAIN conversation_states'
           /\ conversation_states'[event'.channel]["user_id"] = event'.user
           /\ conversation_states'[event'.channel]["messages"] = <<event'.text>>
           /\ DOMAIN conversation_states'[event'.channel]
                \subseteq {"user_id", "messages", "final_entities"}
           /\ "final_entities" \in DOMAIN conversation_states'[event'.channel]
                => /\ Returned(data')
                   /\ conversation_states'[event'.channel]["final_entities"]
                        = Get(data'.value, "entities")
           /\ Len(calls') >= 1
           /\ calls'[1].fn = "process_with_adk_agent"
           /\ calls'[1].query = event'.text
           /\ Cardinality({i \in 1..Len(calls') : calls'[i].fn = "process_with_adk_agent"}) = 1 ]_vars

\* C8 happens: both texts were accepted on the channel and a turn finalized,
\* then U2's message left a conversation owned by U2 that holds this one
\* message and no final_entities, and the classifier was called with it
C8_Witness ==
  /\ event.type = "message"
  /\ event.user = "U2"
  /\ ~event.subtype
  /\ event.channel \in DOMAIN conversation_states
  /\ conversation_states[event.channel]["user_id"] = "U2"
  /\ conversation_states[event.channel]["messages"] = <<event.text>>
  /\ since[event.channel].finalized
  /\ Cardinality(since[event.channel].texts) = 2
  /\ "final_entities" \notin DOMAIN conversation_states[event.channel]
  /\ Len(calls) >= 1
  /\ calls[1].query = event.text

----------------------------------------------------------------------------
(* handle_interaction, as seen in one step of the bot *)

\* the step handles a press of the owner on post or draft with final_entities
\* present, and the collaborator reported success
PressSucceeded ==
  /\ event'.type = "interactive"
  /\ event'.channel \in DOMAIN conversation_states
  /\ event'.user = conversation_states[event'.channel]["user_id"]
  /\ Truthy(FinalEntities(conversation_states[event'.channel]))
  /\ Len(calls') = 1
  /\ \/ /\ event'.action_id = "jd_post_yes"
        /\ calls'[1].fn = "post_job"
        /\ calls'[1].result[1] = TRUE
     \/ /\ event'.action_id = "jd_draft"
        /\ calls'[1].fn = "save_job_to_file"
        /\ calls'[1].result = TRUE

\* C9: when the owner presses post (or draft) with final_entities present and
\* the poster (or the draft store) reports success, the same step removes the
\* conversation from the store and marks the channel as recently completed;
\* the collaborator was given the stored final_entities.
C9_SuccessEndsAndMarks ==
  [][ PressSucceeded
        => /\ event'.channel \notin DOMAIN conversation_states'
           /\ event'.channel \in DOMAIN recently_completed'
           /\ recently_completed'[event'.channel] = TRUE
           /\ calls'[1][IF event'.action_id = "jd_post_yes" THEN "job_details" ELSE "entities"]
                = conversation_states[event'.channel]["final_entities"] ]_vars

\* C9 happens: a draft press succeeded, the channel is marked and has no
\* conversation
C9_Witness ==
  /\ event.type = "interactive"
  /\ event.action_id = "jd_draft"
  /\ Len(calls) = 1
  /\ calls[1].fn = "save_job_to_file"
  /\ calls[1].result = TRUE
  /\ event.channel \notin DOMAIN conversation_states
  /\ event.channel \in DOMAIN recently_completed

\* the entries of a history are pairwise distinct
Distinct(messages) ==
  \A i, j \in 1..Len(messages) : messages[i] = messages[j] => i = j

\* C10: after a conversation ended by a successful post or draft, no later
\* message resurrects old state: whenever a completed channel has a live
\* conversation, its history consists only of messages accepted after the
\* completion (each at most once), it has final_entities only if a turn after
\* the completion finalized, and editing or original_entities only if edit was
\* pressed after the completion.
C10_NothingResurrected ==
  \A c \in DOMAIN recently_completed \cap DOMAIN conversation_states :
    /\ \A i \in 1..Len(conversation_states[c]["messages"]) :
         conversation_states[c]["messages"][i] \in since[c].texts
    /\ Distinct(conversation_states[c]["messages"])
    /\ "final_entities" \in DOMAIN conversation_states[c] => since[c].finalized
    /\ "editing" \in DOMAIN conversation_states[c] => since[c].edited
    /\ "original_entities" \in DOMAIN conversation_states[c] => since[c].edited

\* C10 happens: the first message accepted after a completion opened a
\* conversation on the completed channel that holds this message only
C10_Witness ==
  /\ event.type = "message"
  /\ event.channel \in DOMAIN recently_completed
  /\ event.channel \in DOMAIN conversation_states
  /\ conversation_states[event.channel]["messages"] = <<event.text>>
  /\ since[event.channel].texts = {event.text}
  /\ "final_entities" \notin DOMAIN conversation_states[event.channel]

\* the step handles a press of the owner on the button action_id with
\* final_entities present
OwnerPress(action_id) ==
  /\ event'.type = "interactive"
  /\ event'.action_id = action_id
  /\ event'.channel \in DOMAIN conversation_states
  /\ event'.user = conversation_states[event'.channel]["user_id"]
  /\ Truthy(FinalEntities(conversation_states[event'.channel]))

\* the step left the conversation of the event's channel alive and as it was:
\* same owner, history, final_entities and flags
ConversationKept ==
  /\ event'.channel \in DOMAIN conversation_states'
  /\ conversation_states'[event'.channel] = conversation_states[event'.channel]

\* C11: when the owner presses post in confirming and the poster fails, an
\* error notice is emitted and the conversation stays alive in confirming with
\* the same owner, history and final_entities.
C11_FailedPostKeepsConversation ==
  [][ (/\ OwnerPress("jd_post_yes")
       /\ Len(calls') = 1
       /\ calls'[1].fn = "post_job"
       /\ calls'[1].result[1] = FALSE)
        => /\ Len(sent') = 1
           /\ ConversationKept ]_vars

\* C11 happens: the owner pressed post, the poster answered with a failure,
\* the error notice was sent, and the channel has no conversation any more
C11_Witness ==
  /\ event.type = "interactive"
  /\ event.action_id = "jd_post_yes"
  /\ Len(calls) = 1
  /\ calls[1].fn = "post_job"
  /\ calls[1].result[1] = FALSE
  /\ Len(sent) = 1
  /\ sent[1].text = "Error posting to LinkedIn: {message}"
  /\ event.channel \notin DOMAIN conversation_states

\* C12: when the owner presses draft in confirming and the draft store fails,
\* an error notice is emitted and the conversation stays alive in confirming
\* with the same owner, history and final_entities.
C12_FailedDraftKeepsConversation ==
  [][ (/\ OwnerPress("jd_draft")
       /\ Len(calls') = 1
       /\ calls'[1].fn = "save_job_to_file"
       /\ calls'[1].result = FALSE)
        => /\ Len(sent') = 1
           /\ ConversationKept ]_vars

\* C12 happens: the owner pressed draft, the draft store failed, the error
\* notice was sent, and the channel has no conversation any more
C12_Witness ==
  /\ event.type = "interactive"
  /\ event.action_id = "jd_draft"
  /\ Len(calls) = 1
  /\ calls[1].fn = "save_job_to_file"
  /\ calls[1].result = FALSE
  /\ sent = <<Msg(event.channel, "An error occurred while saving the draft. Please try again.")>>
  /\ event.channel \notin DOMAIN conversation_states

\* the step changed neither the store nor the completed channels, called no
\* collaborator and sent nothing
NothingDone ==
  /\ conversation_states' = conversation_states
  /\ recently_completed' = recently_completed
  /\ calls' = <<>>
  /\ sent' = <<>>

\* C13: a button press by a user who is not the stored owner of the channel's
\* conversation, or on a channel without a live conversation, changes nothing
\* for every action id: the store and the recently-completed set are
\* unchanged, no collaborator is called and no message is emitted.
C13_ForeignPressIgnored ==
  [][ (/\ event'.type = "interactive"
       /\ \/ event'.channel \notin DOMAIN conversation_states
          \/ event'.user # conversation_states[event'.channel]["user_id"])
        => NothingDone ]_vars

\* C13 happens: a user who is not the owner pressed a button on a channel
\* whose conversation is in confirming; nothing was called or sent and the
\* conversation is still there
C13_Witness ==
  /\ event.type = "interactive"
  /\ event.channel \in DOMAIN conversation_states
  /\ event.user # conversation_states[event.channel]["user_id"]
  /\ "final_entities" \in DOMAIN conversation_states[event.channel]
  /\ calls = <<>>
  /\ sent = <<>>

\* C14: when the owner presses any button while the conversation has no
\* final_entities, an error notice is emitted and the conversation is removed
\* from the store; no collaborator is called.
C14_LostContextDestroys ==
  [][ (/\ event'.type = "interactive"
       /\ event'.channel \in DOMAIN conversation_states
       /\ event'.user = conversation_states[event'.channel]["user_id"]
       /\ ~Truthy(FinalEntities(conversation_states[event'.channel])))
        => /\ Len(sent') = 1
           /\ calls' = <<>>
           /\ event'.channel \notin DOMAIN conversation_states' ]_vars

\* C14 happens: the owner pressed a button, the lost-context notice was sent,
\* and the conversation is still in the store, without final_entities
C14_Witness ==
  /\ event.type = "interactive"
  /\ sent = <<Msg(event.channel, "Sorry, I seem to have lost the context. Please start over.")>>
  /\ calls = <<>>
  /\ event.channel \in DOMAIN conversation_states
  /\ conversation_states[event.channel]["user_id"] = event.user
  /\ "final_entities" \notin DOMAIN conversation_states[event.channel]

\* the keys an edit press writes
EditKeys == {"processed", "editing", "original_entities"}

\* the step emitted a confirmation: the list of the five attributes
Finalizes == \E i \in 1..Len(sent') : "lines" \in DOMAIN sent'[i]

\* C15: when the owner presses edit in confirming, original_entities becomes
\* a copy of the entities confirmed at that moment, the conversation stays
\* alive with owner, history and final_entities unchanged and enters editing
\* mode, and no collaborator is called; later messages of the owner leave the
\* snapshot and the editing flag as they are; and a finalization in a
\* conversation in editing mode renders each of the five attributes as the new
\* value with "(was: old)", old taken from the snapshot, not the plain list.
C15_EditSnapshotsAndShowsWas ==
  [][ /\ OwnerPress("jd_edit")
        => /\ event'.channel \in DOMAIN conversation_states'
           /\ DOMAIN conversation_states'[event'.channel]
                = DOMAIN conversation_states[event'.channel] \cup EditKeys
           /\ conversation_states'[event'.channel]["original_entities"]
                = conversation_states[event'.channel]["final_entities"]
           /\ conversation_states'[event'.channel]["editing"] = TRUE
           /\ \A k \in DOMAIN conversation_states[event'.channel] \ EditKeys :
                conversation_states'[event'.channel][k]
                  = conversation_states[event'.channel][k]
           /\ calls' = <<>>
           /\ Len(sent') = 1
      /\ OwnerMessage
        => /\ event'.channel \in DOMAIN conversation_states'
           /\ \A k \in EditKeys :
                /\ k \in DOMAIN conversation_states'[event'.channel]
                     <=> k \in DOMAIN conversation_states[event'.channel]
                /\ k \in DOMAIN conversation_states[event'.channel]
                     => conversation_states'[event'.channel][k]
                          = conversation_states[event'.channel][k]
      /\ (/\ OwnerMessage
          /\ "editing" \in DOMAIN conversation_states[event'.channel]
          /\ Finalizes)
        => /\ sent'[1].text = "Here are the updated job details:"
           /\ \A k \in RequiredKeys :
                sent'[1].lines[k]
                  = [new |-> data'.value.d["entities"].d[k],
                     was |-> conversation_states[event'.channel]["original_entities"].d[k]]
    ]_vars

\* C15 happens: after an edit press the owner's next message finalized with a
\* job title other than the confirmed one, and the confirmation shows both
C15_Witness ==
  /\ event.type = "message"
  /\ event.channel \in DOMAIN conversation_states
  /\ "original_entities" \in DOMAIN conversation_states[event.channel]
  /\ Len(sent) = 3
  /\ "lines" \in DOMAIN sent[1]
  /\ sent[1].lines["job_title"].was
       = conversation_states[event.channel]["original_entities"].d["job_title"]
  /\ sent[1].lines["job_title"].new # sent[1].lines["job_title"].was
  /\ "blocks" \in DOMAIN sent[3]

\* C16: when the owner presses cancel in confirming, the conversation is
\* removed from the store in that step, whatever the collaborators would do:
\* neither the poster nor the draft store is called, the recently-completed
\* set is not touched, and the two cancellation notices are emitted.
C16_CancelDestroys ==
  [][ OwnerPress("jd_no")
        => /\ event'.channel \notin DOMAIN conversation_states'
           /\ calls' = <<>>
           /\ recently_completed' = recently_completed
           /\ sent' = <<Msg(event'.channel, "Job posting cancelled."),
                        Msg(event'.channel, "Starting fresh. Please provide new job details:")>> ]_vars

\* C16 happens: the cancel press was handled, the channel has no conversation
\* and was never completed
C16_Witness ==
  /\ event.type = "interactive"
  /\ event.action_id = "jd_no"
  /\ Len(sent) = 2
  /\ sent[1] = Msg(event.channel, "Job posting cancelled.")
  /\ calls = <<>>
  /\ event.channel \notin DOMAIN conversation_states
  /\ event.channel \notin DOMAIN recently_completed

\* C17: when the owner presses a button whose action id is none of post,
\* draft, edit, cancel while final_entities is present, the conversation is
\* removed from the store and no collaborator is called.
C17_UnknownActionDestroys ==
  [][ (\E a \in ActionIds \ {"jd_post_yes", "jd_draft", "jd_edit", "jd_no"} : OwnerPress(a))
        => /\ event'.channel \notin DOMAIN conversation_states'
           /\ calls' = <<>> ]_vars

\* C17 happens: a press with the unknown action id was handled on a channel
\* whose texts had led to a finalization, and the conversation is gone with
\* nothing sent
C17_Witness ==
  /\ event.type = "interactive"
  /\ event.action_id = "jd_other"
  /\ since[event.channel].finalized
  /\ event.channel \notin DOMAIN conversation_states
  /\ event.channel \notin DOMAIN recently_completed
  /\ calls = <<>>
  /\ sent = <<>>

\* the step classified an inbound message and the validated intent is
\* quota_exceeded
QuotaTurn ==
  /\ InboundMessage
  /\ data' # NotCalled
  /\ Returned(data')
  /\ Get(data'.value, "intent") = Str(QUOTA_EXCEEDED)

\* C18 as stated: when the classifier result for an inbound message of the
\* owner is quota_exceeded, exactly one rate-limit notice is emitted and the
\* conversation is as it was before the message was received: same owner,
\* history, final_entities, editing flag and original_entities.
C18_Original ==
  [][ (QuotaTurn /\ OwnerMessage)
        => /\ sent' = <<Msg(event'.channel, QuotaNotice)>>
           /\ ConversationKept ]_vars

\* C18 amended: when the classifier result for an inbound message is
\* quota_exceeded, exactly one rate-limit notice is emitted, no other
\* collaborator is called and the conversation is not destroyed; it is the
\* conversation as it was stored before the classifier was called: for a
\* message of the owner the same owner, final_entities, editing flag and
\* original_entities with the history extended by this message, and for a
\* message of anybody else a new conversation holding this message only.
C18_QuotaKeepsStoredConversation ==
  [][ QuotaTurn
        => /\ sent' = <<Msg(event'.channel, QuotaNotice)>>
           /\ Len(calls') = 1
           /\ calls'[1].fn = "process_with_adk_agent"
           /\ event'.channel \in DOMAIN conversation_states'
           /\ conversation_states'[event'.channel] =
                IF OwnerMessage
                THEN [conversation_states[event'.channel] EXCEPT
                        !["messages"] = Append(@, event'.text)]
                ELSE [user_id |-> event'.user, messages |-> <<event'.text>>] ]_vars

\* C18 happens: the owner's second message met the quota error while the
\* conversation was in confirming; the notice was sent, the history has both
\* messages and final_entities is still there
C18_Witness ==
  /\ event.type = "message"
  /\ data # NotCalled
  /\ Returned(data)
  /\ Get(data.value, "intent") = Str(QUOTA_EXCEEDED)
  /\ sent = <<Msg(event.channel, QuotaNotice)>>
  /\ event.channel \in DOMAIN conversation_states
  /\ conversation_states[event.channel]["user_id"] = event.user
  /\ Len(conversation_states[event.channel]["messages"]) = 2
  /\ conversation_states[event.channel]["messages"][2] = event.text
  /\ "final_entities" \in DOMAIN conversation_states[event.channel]

\* the calls to the poster among made
Postings(made) == {i \in 1..Len(made) : made[i].fn = "post_job"}

\* the success notices, carrying the reference, among out
PostedNotices(out) ==
  {i \in 1..Len(out) : out[i].text = "Job posted successfully! Link: {message}"}

\* C19: the poster is called only by a post press of the owner of a
\* conversation that has final_entities, once per press and only if a turn
\* finalized on the channel since its last completion; a successful post
\* emits the success notice with the reference exactly once and removes the
\* conversation, so that a further post press calls the poster zero times
\* until a new conversation has been created and finalized.
C19_AtMostOnePostPerFinalization ==
  [][ /\ Postings(calls') # {}
        => /\ OwnerPress("jd_post_yes")
           /\ Len(calls') = 1
           /\ calls'[1].job_details = conversation_states[event'.channel]["final_entities"]
           /\ since[event'.channel].finalized
           /\ calls'[1].result[1]
                => /\ Cardinality(PostedNotices(sent')) = 1
                   /\ \A i \in PostedNotices(sent') : sent'[i].message = calls'[1].result[2]
                   /\ event'.channel \notin DOMAIN conversation_states'
                   /\ ~since'[event'.channel].finalized
      /\ Postings(calls') = {} => PostedNotices(sent') = {}
    ]_vars

\* C19 happens: a post press succeeded, the one success notice was sent, the
\* conversation is gone and nothing was accepted on the channel since
C19_Witness ==
  /\ event.type = "interactive"
  /\ event.action_id = "jd_post_yes"
  /\ Len(calls) = 1
  /\ calls[1].fn = "post_job"
  /\ calls[1].result[1]
  /\ Cardinality(PostedNotices(sent)) = 1
  /\ event.channel \notin DOMAIN conversation_states
  /\ since[event.channel] = NothingSince

\* C20: once final_entities is set, its value does not change until the
\* conversation ends (is destroyed or replaced) or the owner presses edit: a
\* step that keeps the conversation of a channel with its owner, and in which
\* no edit press was made in that conversation, leaves final_entities as it
\* was; in particular a further message of the owner in confirming does.
C20_FinalEntitiesFrozen ==
  [][ \A c \in Channels :
        (/\ c \in DOMAIN conversation_states
         /\ "final_entities" \in DOMAIN conversation_states[c]
         /\ "editing" \notin DOMAIN conversation_states[c]
         /\ ~(event'.type = "interactive" /\ event'.action_id = "jd_edit")
         /\ c \in DOMAIN conversation_states'
         /\ conversation_states'[c]["user_id"] = conversation_states[c]["user_id"])
          => /\ "final_entities" \in DOMAIN conversation_states'[c]
             /\ conversation_states'[c]["final_entities"]
                  = conversation_states[c]["final_entities"] ]_vars

\* a value is null or a non-empty string
NullOrNonEmpty(v) == v = None \/ (IsStr(v) /\ v.s # <<>>)

\* C21 as stated: in every validator output used by process_conversation and
\* in every stored final_entities, each of the five attributes is null or a
\* non-empty string, never the empty string.
C21_Original ==
  /\ (data # NotCalled /\ Returned(data))
       => \A k \in RequiredKeys : NullOrNonEmpty(Get(Get(data.value, "entities"), k))
  /\ \A c \in DOMAIN conversation_states :
       "final_entities" \in DOMAIN conversation_states[c]
         => \A k \in RequiredKeys :
              NullOrNonEmpty(Get(conversation_states[c]["final_entities"], k))

\* C21 amended: in every validator output whose intent is hiring_request, the
\* only outputs whose attributes the engine reads, and in every stored
\* final_entities, each of the five attributes is null or a non-empty string;
\* outputs with another intent carry the classifier's entities unchecked.
C21_HiringValuesNonEmpty ==
  /\ (/\ data # NotCalled
      /\ Returned(data)
      /\ Get(data.value, "intent") = Str(HIRING_REQUEST))
       => \A k \in RequiredKeys : NullOrNonEmpty(Get(Get(data.value, "entities"), k))
  /\ \A c \in DOMAIN conversation_states :
       "final_entities" \in DOMAIN conversation_states[c]
         => \A k \in RequiredKeys :
              NullOrNonEmpty(Get(conversation_states[c]["final_entities"], k))

\* C21 happens: a turn validated a hiring_request with a job title and a null
\* skills attribute, next to final_entities stored by an earlier turn
C21_Witness ==
  /\ event.type = "message"
  /\ data # NotCalled
  /\ Returned(data)
  /\ Get(data.value, "intent") = Str(HIRING_REQUEST)
  /\ Get(data.value.d["entities"], "job_title") = Str(<<"Q", "A">>)
  /\ Get(data.value.d["entities"], "skills") = None
  /\ event.channel \in DOMAIN conversation_states
  /\ "final_entities" \in DOMAIN conversation_states[event.channel]

\* the step classified an inbound message and the validated intent is
\* neither hiring_request nor quota_exceeded
NoRequestTurn ==
  /\ InboundMessage
  /\ data' # NotCalled
  /\ Returned(data')
  /\ Get(data'.value, "intent") \notin {Str(HIRING_REQUEST), Str(QUOTA_EXCEEDED)}

\* the keys of a conversation that confirmation and editing write
ConfirmKeys == {"final_entities", "editing", "original_entities"}

\* C22: when the validated intent is not_hiring, exactly one "didn't detect a
\* hiring request" notice is emitted; for an intent other than hiring_request,
\* not_hiring and quota_exceeded exactly one generic clarification notice is
\* emitted; in both cases the conversation stays alive, no question, no
\* confirmation and no buttons message is emitted, no other collaborator is
\* called, and final_entities, editing and original_entities are left as the
\* conversation had them when the classifier was called (a conversation just
\* started by the message has none).
C22_NoRequestNotice ==
  [][ NoRequestTurn
        => /\ sent' = <<Msg(event'.channel,
                            IF Get(data'.value, "intent") = Str(NOT_HIRING)
                            THEN NotHiringNotice ELSE ClarifyNotice)>>
           /\ Len(calls') = 1
           /\ event'.channel \in DOMAIN conversation_states'
           /\ \A k \in ConfirmKeys :
                IF OwnerMessage
                THEN /\ k \in DOMAIN conversation_states'[event'.channel]
                          <=> k \in DOMAIN conversation_states[event'.channel]
                     /\ k \in DOMAIN conversation_states[event'.channel]
                          => conversation_states'[event'.channel][k]
                               = conversation_states[event'.channel][k]
                ELSE k \notin DOMAIN conversation_states'[event'.channel] ]_vars

\* C22 happens: a message of the owner, in a conversation that holds
\* final_entities and an edit snapshot, was classified with an intent outside
\* the three, and the generic clarification notice was sent
C22_Witness ==
  /\ event.type = "message"
  /\ data # NotCalled
  /\ Returned(data)
  /\ Get(data.value, "intent") \notin KnownIntents
  /\ sent = <<Msg(event.channel, ClarifyNotice)>>
  /\ event.channel \in DOMAIN conversation_states
  /\ conversation_states[event.channel]["user_id"] = event.user
  /\ "final_entities" \in DOMAIN conversation_states[event.channel]
  /\ "original_entities" \in DOMAIN conversation_states[event.channel]

\* the step handles an inbound message that is not dropped as a duplicate
AcceptedMessage ==
  /\ InboundMessage
  /\ ~(OwnerMessage /\ event'.text \in StoredTexts)

\* the calls to the classifier among made
Classifications(made) == {i \in 1..Len(made) : made[i].fn = "process_with_adk_agent"}

\* C23: every accepted inbound message causes exactly one classifier call,
\* made before any other call, whose input is the newline-join of the
\* conversation's complete history in arrival order, ending with the message
\* just received; as long as a conversation lives with its owner, a step
\* leaves its history as it is or appends the received message at the end;
\* button presses cause no classifier call.
C23_OneCallOnWholeHistory ==
  [][ /\ AcceptedMessage
        => /\ Classifications(calls') = {1}
           /\ event'.channel \in DOMAIN conversation_states'
           /\ calls'[1].query
                = Join(<<"\n">>, conversation_states'[event'.channel]["messages"])
           /\ calls'[1].context = <<>>
           /\ conversation_states'[event'.channel]["messages"]
                = (IF OwnerMessage THEN conversation_states[event'.channel]["messages"]
                   ELSE <<>>) \o <<event'.text>>
      /\ \A c \in DOMAIN conversation_states \cap DOMAIN conversation_states' :
           conversation_states'[c]["user_id"] = conversation_states[c]["user_id"]
             => \/ conversation_states'[c]["messages"] = conversation_states[c]["messages"]
                \/ /\ event'.type = "message"
                   /\ conversation_states'[c]["messages"]
                        = Append(conversation_states[c]["messages"], event'.text)
      /\ event'.type = "interactive" => Classifications(calls') = {}
    ]_vars

\* C23 happens: the owner's second message was accepted and the classifier
\* was called with the two messages joined by a newline
C23_Witness ==
  /\ event.type = "message"
  /\ event.channel \in DOMAIN conversation_states
  /\ conversation_states[event.channel]["messages"]
       = << <<"h","i">>, <<"N","e","e","d"," ","Q","A">> >>
  /\ event.text = <<"N","e","e","d"," ","Q","A">>
  /\ Len(calls) >= 1
  /\ calls[1].fn = "process_with_adk_agent"
  /\ calls[1].query = <<"h","i","\n","N","e","e","d"," ","Q","A">>

----------------------------------------------------------------------------
(* The engine of src/app.py with the classifier as a collaborator that may  *)
(* return any text: process_conversation is run on answers that the cleanup *)
(* of src/llm_agent.py would not let through                                *)

\* what llm_agent.process_with_adk_agent is taken to return here
StubAnswers ==
  { Dumps(Dict([intent |-> Str(HIRING_REQUEST), entities |-> Dict(e)])) :
      e \in { [k \in RequiredKeys |-> Str(Strip(FullA[k].s))],
              [FullA EXCEPT !["job_title"] = Str(<<>>)],
              [FullA EXCEPT !["job_title"] = Str(<<" ", " ">>)],
              [FullA EXCEPT !["job_title"] = Str(<<>>), !["skills"] = None],
              [FullA EXCEPT !["location"] = Str(<<>>)],
              Put(FullA, "salary", Str(<<"1">>)) } }
    \cup { Dumps(Dict([intent |-> Str(NOT_HIRING), entities |-> Dict(AllNone)])),
           Dumps(Dict([intent |-> Str(QUOTA_EXCEEDED), entities |-> Dict(AllNone)])),
           <<Junk>> }

\* app.py:92-200 with the classifier's answer taken from StubAnswers
process_conversation_stub(states, channel_id) ==
  IF channel_id \notin DOMAIN states \/ states[channel_id]["messages"] = <<>>
  THEN /\ conversation_states' = states
       /\ calls' = <<>>
       /\ sent' = <<>>
       /\ llm_response' = <<>>
       /\ data' = NotCalled
  ELSE \E answer \in StubAnswers :
         /\ llm_response' = answer
         /\ data' = validate_llm_response(llm_response')
         /\ Respond(states, channel_id)

\* app.py:203-240 with the classifier's answer taken from StubAnswers
process_slack_events_stub(channel_id, user_id, message_text, subtype) ==
  /\ event' = [type |-> "message", channel |-> channel_id, user |-> user_id,
               text |-> message_text, subtype |-> subtype]
  /\ IF user_id = bot_user_id \/ subtype THEN Quiet
     ELSE IF Stored(conversation_states, channel_id, user_id, message_text)
             = conversation_states
     THEN Quiet
     ELSE /\ process_conversation_stub(
               Stored(conversation_states, channel_id, user_id, message_text), channel_id)
          /\ since' = [since EXCEPT ![channel_id] =
                         [texts |-> @.texts \cup {message_text},
                          finalized |-> @.finalized
                                          \/ \E i \in 1..Len(sent') : "blocks" \in DOMAIN sent'[i],
                          edited |-> @.edited]]
          /\ UNCHANGED recently_completed

MessageEventStub ==
  \E channel_id \in Channels, user_id \in Users \cup {bot_user_id},
     message_text \in Texts, subtype \in BOOLEAN :
    /\ process_slack_events_stub(channel_id, user_id, message_text, subtype)
    /\ UNCHANGED threads

NextEngine == MessageEventStub \/ ButtonEvent

SpecEngine == Init /\ [][NextEngine]_vars

\* a string of white space only, the empty string included
Blank(s) == \A i \in 1..Len(s) : s[i] \in Whitespace

\* C24: when the validated intent is hiring_request, no attribute is null,
\* but job_title is a blank string (empty or white space only), exactly one
\* clarification request is emitted, the generator is not called, no
\* confirmation and no buttons are emitted, and final_entities is not written.
C24_BlankTitleAsksAgain ==
  [][ (/\ ValidatedHiring
       /\ \A k \in RequiredKeys : Get(data'.value.d["entities"], k) # None
       /\ IsStr(Get(data'.value.d["entities"], "job_title"))
       /\ Blank(Get(data'.value.d["entities"], "job_title").s))
        => /\ sent' = <<Msg(event'.channel, NoTitleNotice)>>
           /\ Generations(calls') = {}
           /\ Len(calls') = 1
           /\ event'.channel \in DOMAIN conversation_states'
           /\ FinalEntitiesNotWritten ]_vars

\* C24 happens: a turn validated a hiring_request whose job_title is two
\* spaces and whose other attributes are filled, and the request to specify
\* the role was sent
C24_Witness ==
  /\ event.type = "message"
  /\ data # NotCalled
  /\ Returned(data)
  /\ Get(data.value, "intent") = Str(HIRING_REQUEST)
  /\ \A k \in RequiredKeys : Get(data.value.d["entities"], k) # None
  /\ Get(data.value.d["entities"], "job_title") = Str(<<" ", " ">>)
  /\ sent = <<Msg(event.channel, NoTitleNotice)>>
  /\ Len(calls) = 1

----------------------------------------------------------------------------
(* Button presses handled on interleaved worker threads.                   *)
(* app.py:31 creates slack_sdk's SocketModeClient and app.py:326-327       *)
(* registers the listeners on it; the client hands each request to a       *)
(* thread of its worker pool, and app.py takes no lock around              *)
(* conversation_states.  A handler is cut where it waits for a blocking    *)
(* call: after reading the store (app.py:249-253) and after post_job       *)
(* returned (app.py:257).  Each worker thread handles one press.           *)

ConcurrentActionIds == {"jd_post_yes", "jd_no"}

\* the store while the owner U1 of C1 is asked to confirm: one message was
\* accepted and the cleaned entities were frozen (app.py:232-237, 190)
ConfirmingStore ==
  [c \in {"C1"} |->
     Freeze(Stored(EmptyMap, "C1", "U1", <<"N","e","e","d"," ","Q","A">>)["C1"],
            Dict([k \in RequiredKeys |-> Str(Strip(FullA[k].s))]))]

InitConcurrent ==
  /\ conversation_states = ConfirmingStore
  /\ recently_completed = [c \in {} |-> TRUE]
  /\ event = NoEvent
  /\ sent = <<>>
  /\ calls = <<>>
  /\ llm_response = <<>>
  /\ data = NotCalled
  /\ since = [c \in Channels |->
                [texts |-> {<<"N","e","e","d"," ","Q","A">>}, finalized |-> TRUE,
                 edited |-> FALSE]]
  /\ threads = [w \in Workers |-> Idle]

\* the thread ended: it returned, or an exception left the listener
Returns(w, how) == threads' = [threads EXCEPT ![w].pc = how]

\* app.py:320 reached by a thread: del conversation_states[channel_id], which
\* raises KeyError when the channel is no longer in the store
FallThroughDel(w, channel_id) ==
  IF channel_id \in DOMAIN conversation_states
  THEN /\ conversation_states' = Del(conversation_states, channel_id)
       /\ Returns(w, "returned")
  ELSE /\ UNCHANGED conversation_states
       /\ Returns(w, "KeyError")

\* app.py:243-253: a worker thread starts handle_interaction and reads the
\* store: the owner test and the frozen entities
BeginInteraction(w, action_id, channel_id, user_id) ==
  /\ threads[w] = Idle
  /\ event' = [type |-> "interactive", channel |-> channel_id, user |-> user_id,
               action_id |-> action_id]
  /\ calls' = <<>>
  /\ llm_response' = <<>>
  /\ data' = NotCalled
  /\ UNCHANGED <<conversation_states, recently_completed, since>>
  /\ IF IsOwner(conversation_states, channel_id, user_id)
     THEN IF ~Truthy(FinalEntities(conversation_states[channel_id]))
          THEN /\ sent' = <<Msg(channel_id, "Sorry, I seem to have lost the context. Please start over.")>>
               /\ Returns(w, "returned")
          ELSE /\ sent' = <<>>
               /\ threads' = [threads EXCEPT ![w] =
                    [pc |-> "pressed", action_id |-> action_id,
                     channel_id |-> channel_id,
                     entities |-> FinalEntities(conversation_states[channel_id]),
                     result |-> <<FALSE, "">>]]
     ELSE /\ sent' = <<>>
          /\ Returns(w, "returned")

\* app.py:255-257: the thread calls linkedin_poster.post_job(entities) and
\* waits for it
CallPostJob(w) ==
  /\ threads[w].pc = "pressed"
  /\ threads[w].action_id = "jd_post_yes"
  /\ \E net \in NetOutcomes :
       LET result == post_job(threads[w].entities, net) IN
       /\ calls' = <<[fn |-> "post_job", job_details |-> threads[w].entities,
                      result |-> result]>>
       /\ threads' = [threads EXCEPT ![w].pc = "posted", ![w].result = result]
  /\ sent' = <<>>
  /\ UNCHANGED <<conversation_states, recently_completed, event, llm_response,
                 data, since>>

\* app.py:258-271, 320: the thread goes on after post_job returned
AfterPostJob(w) ==
  LET channel_id == threads[w].channel_id IN
  /\ threads[w].pc = "posted"
  /\ calls' = <<>>
  /\ UNCHANGED <<event, llm_response, data>>
  /\ IF threads[w].result[1]
     THEN /\ recently_completed' = MarkCompleted(recently_completed, channel_id)
          /\ IF channel_id \in DOMAIN conversation_states
             THEN /\ sent' = <<[channel |-> channel_id,
                                text |-> "Job posted successfully! Link: {message}",
                                message |-> threads[w].result[2]],
                               Msg(channel_id, "Job posted! Conversation ended.")>>
                  /\ conversation_states' = Del(conversation_states, channel_id)
                  /\ since' = [since EXCEPT ![channel_id] = NothingSince]
                  /\ Returns(w, "returned")
             ELSE \* del raises KeyError (l.264), caught at l.269; l.320 raises it again
                  /\ sent' = <<[channel |-> channel_id,
                                text |-> "Job posted successfully! Link: {message}",
                                message |-> threads[w].result[2]],
                               Msg(channel_id, "Job posted! Conversation ended."),
                               Msg(channel_id, "An error occurred while posting to LinkedIn. Please try again.")>>
                  /\ UNCHANGED <<conversation_states, since>>
                  /\ Returns(w, "KeyError")
     ELSE /\ sent' = <<[channel |-> channel_id,
                        text |-> "Error posting to LinkedIn: {message}",
                        message |-> threads[w].result[2]]>>
          /\ UNCHANGED <<recently_completed, since>>
          /\ FallThroughDel(w, channel_id)

\* app.py:306-320: the thread of a "No" press cancels
CancelInteraction(w) ==
  LET channel_id == threads[w].channel_id IN
  /\ threads[w].pc = "pressed"
  /\ threads[w].action_id = "jd_no"
  /\ calls' = <<>>
  /\ UNCHANGED <<recently_completed, event, llm_response, data, since>>
  /\ IF channel_id \in DOMAIN conversation_states
     THEN /\ sent' = <<Msg(channel_id, "Job posting cancelled."),
                       Msg(channel_id, "Starting fresh. Please provide new job details:")>>
          /\ conversation_states' = Del(conversation_states, channel_id)
          /\ Returns(w, "returned")
     ELSE \* del raises KeyError (l.314), caught at l.316; l.320 raises it again
          /\ sent' = <<Msg(channel_id, "Job posting cancelled."),
                       Msg(channel_id, "Starting fresh. Please provide new job details:"),
                       Msg(channel_id, "An error occurred while cancelling. Please try again.")>>
          /\ UNCHANGED conversation_states
          /\ Returns(w, "KeyError")

PressDelivered ==
  \E w \in Workers, action_id \in ConcurrentActionIds, channel_id \in Channels,
     user_id \in Users :
    BeginInteraction(w, action_id, channel_id, user_id)

PosterCalled == \E w \in Workers : CallPostJob(w)

PosterReturned == \E w \in Workers : AfterPostJob(w)

CancelRuns == \E w \in Workers : CancelInteraction(w)

NextConcurrent == PressDelivered \/ PosterCalled \/ PosterReturned \/ CancelRuns

SpecConcurrent == InitConcurrent /\ [][NextConcurrent]_vars

\* the store the concurrent runs start from is one the bot reaches
ConfirmingStoreReached == conversation_states = ConfirmingStore

\* C26: events of one channel are handled one at a time against the store:
\* with two presses of one conversation in flight together the outcome is
\* that of some serial order, so the poster succeeds for at most one of them
\* and no handler deletes a conversation that another handler has already
\* destroyed (no listener ends in the KeyError of such a delete)
C26_OneAtATimePerChannel ==
  /\ Cardinality({w \in Workers : threads[w].result[1]}) <= 1
  /\ \A w \in Workers : threads[w].pc # "KeyError"

\* two presses of the owner are in flight together: both threads have read
\* the store and neither has finished
C26_Witness ==
  \A w \in Workers : threads[w].pc \in {"pressed", "posted"}

\* C27: in every reachable state the history of every live conversation is
\* non-empty and its entries are pairwise distinct strings: a text is stored
\* at most once per conversation
C27_HistoryNonEmptyDistinct ==
  \A c \in DOMAIN conversation_states :
    /\ Len(conversation_states[c]["messages"]) >= 1
    /\ \A i \in 1..Len(conversation_states[c]["messages"]) :
         conversation_states[c]["messages"][i] \in Texts
    /\ Distinct(conversation_states[c]["messages"])

\* C27 happens: the owner repeated a text of a two-entry history, and the
\* step stored nothing and called nothing
C27_Witness ==
  /\ event.type = "message"
  /\ ~event.subtype
  /\ event.channel \in DOMAIN conversation_states
  /\ event.user = conversation_states[event.channel]["user_id"]
  /\ Len(conversation_states[event.channel]["messages"]) = 2
  /\ event.text = conversation_states[event.channel]["messages"][1]
  /\ calls = <<>>

\* e is a complete entity record: a mapping whose five attributes are
\* non-null and whose job_title is a string with a non-blank character
CompleteRecord(e) ==
  /\ IsDict(e)
  /\ \A k \in RequiredKeys : k \in DOMAIN e.d /\ e.d[k] # None
  /\ IsStr(e.d["job_title"])
  /\ ~Blank(e.d["job_title"].s)

\* the entity record a collaborator call was given
GivenRecord(call) ==
  IF call.fn = "post_job" THEN call.job_details ELSE call.entities

\* C28: in every reachable state, whenever a conversation has
\* final_entities, its five attributes job_title, experience, skills,
\* job_type and location are non-null and job_title is non-blank; and the
\* poster and the draft store are only called with a complete entity record
C28_FinalEntitiesComplete ==
  /\ \A c \in DOMAIN conversation_states :
       "final_entities" \in DOMAIN conversation_states[c]
         => CompleteRecord(conversation_states[c]["final_entities"])
  /\ \A i \in 1..Len(calls) :
       calls[i].fn \in {"post_job", "save_job_to_file"}
         => CompleteRecord(GivenRecord(calls[i]))

\* C28 happens: a message of a conversation in edit mode was answered with
\* a follow-up question (the classifier's record had a null attribute), and
\* the conversation still holds its final_entities
C28_Witness ==
  /\ event.type = "message"
  /\ event.channel \in DOMAIN conversation_states
  /\ "final_entities" \in DOMAIN conversation_states[event.channel]
  /\ "editing" \in DOMAIN conversation_states[event.channel]
  /\ data # NotCalled
  /\ Returned(data)
  /\ Get(data.value, "intent") = Str(HIRING_REQUEST)
  /\ \E k \in RequiredKeys : Get(data.value.d["entities"], k) = None

EditPending ==
  /\ event'.channel \in DOMAIN conversation_states
  /\ "editing" \in DOMAIN conversation_states[event'.channel]
  /\ "final_entities" \in DOMAIN conversation_states[event'.channel]
  /\ conversation_states[event'.channel]["final_entities"]
       = conversation_states[event'.channel]["original_entities"]

\* C30: pressing edit does not clear final_entities: after the press it is
\* what it was, and equal to the snapshot; a message of the owner in edit
\* mode that does not end in an offer of the buttons (a follow-up question,
\* not_hiring, quota_exceeded, ...) leaves final_entities and the snapshot
\* as they are; and a post or draft press of the owner before the next
\* finalization calls the collaborator, once, with the pre-edit entities
\* and, on success, ends the conversation.
C30_EditKeepsFinalEntities ==
  [][ /\ OwnerPress("jd_edit")
        => /\ event'.channel \in DOMAIN conversation_states'
           /\ "final_entities" \in DOMAIN conversation_states'[event'.channel]
           /\ conversation_states'[event'.channel]["final_entities"]
                = conversation_states[event'.channel]["final_entities"]
           /\ conversation_states'[event'.channel]["original_entities"]
                = conversation_states[event'.channel]["final_entities"]
      /\ (OwnerMessage /\ EditPending /\ Offers(sent') = {})
        => /\ event'.channel \in DOMAIN conversation_states'
           /\ "editing" \in DOMAIN conversation_states'[event'.channel]
           /\ "final_entities" \in DOMAIN conversation_states'[event'.channel]
           /\ conversation_states'[event'.channel]["final_entities"]
                = conversation_states[event'.channel]["final_entities"]
           /\ conversation_states'[event'.channel]["original_entities"]
                = conversation_states[event'.channel]["original_entities"]
      /\ (OwnerPress("jd_post_yes") /\ EditPending)
        => /\ Len(calls') = 1
           /\ calls'[1].fn = "post_job"
           /\ calls'[1].job_details
                = conversation_states[event'.channel]["original_entities"]
           /\ calls'[1].result[1]
                => event'.channel \notin DOMAIN conversation_states'
      /\ (OwnerPress("jd_draft") /\ EditPending)
        => /\ Len(calls') = 1
           /\ calls'[1].fn = "save_job_to_file"
           /\ calls'[1].entities
                = conversation_states[event'.channel]["original_entities"]
           /\ calls'[1].result = TRUE
                => event'.channel \notin DOMAIN conversation_states'
    ]_vars

\* C30 happens: in edit mode the owner's message was answered with a
\* follow-up question or a notice, no buttons were offered, and the
\* conversation still holds the pre-edit entities as final_entities, which
\* a post or draft press would now hand to the collaborator
C30_Witness ==
  /\ event.type = "message"
  /\ event.channel \in DOMAIN conversation_states
  /\ event.user = conversation_states[event.channel]["user_id"]
  /\ "editing" \in DOMAIN conversation_states[event.channel]
  /\ since[event.channel].edited
  /\ Len(sent) = 1
  /\ Classifications(calls) = {1}
  /\ Len(conversation_states[event.channel]["messages"]) = 2
  /\ conversation_states[event.channel]["messages"][2] = event.text
  /\ "final_entities" \in DOMAIN conversation_states[event.channel]
  /\ conversation_states[event.channel]["final_entities"]
       = conversation_states[event.channel]["original_entities"]

\* C31: an accepted message stays in the history whatever the classifier
\* returned for it (quota_exceeded and a generation error included): after
\* the step the conversation of the channel lives, owned by the sender, and
\* its last entry is the message; when the owner sends a stored text again,
\* the step changes nothing, calls nobody and sends nothing; so the
\* classifier is only ever called for a text the history did not hold, or
\* on a channel whose conversation was destroyed or is being replaced.
C31_AcceptedMessageStays ==
  [][ /\ AcceptedMessage
        => /\ event'.channel \in DOMAIN conversation_states'
           /\ conversation_states'[event'.channel]["user_id"] = event'.user
           /\ conversation_states'[event'.channel]["messages"]
                [Len(conversation_states'[event'.channel]["messages"])] = event'.text
      /\ (OwnerMessage /\ event'.text \in StoredTexts) => NoOp
      /\ Classifications(calls') # {}
        => /\ InboundMessage
           /\ \/ event'.channel \notin DOMAIN conversation_states
              \/ event'.user # conversation_states[event'.channel]["user_id"]
              \/ event'.text \notin StoredTexts
    ]_vars

\* C31 happens: the owner sent again the only text of a history whose turn
\* did not finalize (no final_entities), and the step called nobody and
\* sent nothing
C31_Witness ==
  /\ event.type = "message"
  /\ event.user # bot_user_id
  /\ ~event.subtype
  /\ event.channel \in DOMAIN conversation_states
  /\ conversation_states[event.channel]["user_id"] = event.user
  /\ conversation_states[event.channel]["messages"] = <<event.text>>
  /\ "final_entities" \notin DOMAIN conversation_states[event.channel]
  /\ since[event.channel].texts = {event.text}
  /\ ~since[event.channel].finalized
  /\ calls = <<>>
  /\ sent = <<>>
  /\ data = NotCalled

\* the step wrote final_entities of the event's channel in this very turn:
\* a message of the user who owns the conversation afterwards was validated
\* and its entities were stored
ConfirmedInThisTurn ==
  /\ InboundMessage
  /\ conversation_states'[event'.channel]["user_id"] = event'.user
  /\ data' # NotCalled
  /\ Returned(data')
  /\ conversation_states'[event'.channel]["final_entities"]
       = Get(data'.value, "entities")

\* C32: owner replacement discards final_entities, the editing flag and
\* original_entities together with the history; afterwards a press of the
\* previous owner is ignored without a state change, and a press of the new
\* owner before a new finalization emits only the lost-context notice and
\* calls neither poster nor draft store.  Entities confirmed by one user are
\* never posted or saved by a press of another user: the final_entities a
\* conversation holds were stored in a turn of its owner (a step that brings
\* a new owner or new final_entities is such a turn), and the poster and
\* the draft store are called only in a press of the owner, with them.
C32_ReplacementDiscardsEntities ==
  [][ /\ (/\ InboundMessage
          /\ event'.channel \in DOMAIN conversation_states
          /\ event'.user # conversation_states[event'.channel]["user_id"])
        => /\ conversation_states'[event'.channel]["user_id"] = event'.user
           /\ conversation_states'[event'.channel]["messages"] = <<event'.text>>
           /\ \A k \in EditKeys : k \notin DOMAIN conversation_states'[event'.channel]
           /\ "final_entities" \in DOMAIN conversation_states'[event'.channel]
                => ConfirmedInThisTurn
      /\ (/\ event'.type = "interactive"
          /\ event'.channel \in DOMAIN conversation_states
          /\ event'.user # conversation_states[event'.channel]["user_id"])
        => NothingDone
      /\ (/\ event'.type = "interactive"
          /\ event'.channel \in DOMAIN conversation_states
          /\ event'.user = conversation_states[event'.channel]["user_id"]
          /\ "final_entities" \notin DOMAIN conversation_states[event'.channel])
        => /\ sent' = <<Msg(event'.channel, "Sorry, I seem to have lost the context. Please start over.")>>
           /\ calls' = <<>>
      /\ \A c \in DOMAIN conversation_states' :
           (/\ "final_entities" \in DOMAIN conversation_states'[c]
            /\ \/ c \notin DOMAIN conversation_states
               \/ "final_entities" \notin DOMAIN conversation_states[c]
               \/ conversation_states'[c]["user_id"] # conversation_states[c]["user_id"]
               \/ conversation_states'[c]["final_entities"]
                    # conversation_states[c]["final_entities"])
             => c = event'.channel /\ ConfirmedInThisTurn
      /\ \A i \in 1..Len(calls') :
           calls'[i].fn \in {"post_job", "save_job_to_file"}
             => /\ event'.type = "interactive"
                /\ event'.channel \in DOMAIN conversation_states
                /\ event'.user = conversation_states[event'.channel]["user_id"]
                /\ GivenRecord(calls'[i])
                     = conversation_states[event'.channel]["final_entities"]
    ]_vars

\* C32 happens: on a channel where a turn finalized and edit was pressed
\* since the last completion, U2 owns a one-message conversation without
\* final_entities and edit flags, and U2's press got the lost-context
\* notice and called nobody
C32_Witness ==
  /\ event.type = "interactive"
  /\ event.user = "U2"
  /\ event.channel \in DOMAIN conversation_states
  /\ conversation_states[event.channel]["user_id"] = "U2"
  /\ DOMAIN conversation_states[event.channel] = {"user_id", "messages"}
  /\ Len(conversation_states[event.channel]["messages"]) = 1
  /\ since[event.channel].finalized
  /\ since[event.channel].edited
  /\ sent = <<Msg(event.channel, "Sorry, I seem to have lost the context. Please start over.")>>
  /\ calls = <<>>

====
